---- MODULE Spec2Model ----
(***************************************************************************)
(* Model of the ServerManager supervision engine (src/ServerManager):      *)
(* one ServerWorker (worker.py) with its worker thread, the control        *)
(* operations the ServerManager (manager.py) runs on the UI thread, the     *)
(* shared ui_queue and its consumer (main.py, _update_ui), and the remote   *)
(* host the worker talks to through SSHClient (ssh_client.py).             *)
(* The ServerManager's own bookkeeping (configs, workers, servers.json) is  *)
(* followed in SpecFleet, and two workers side by side in SpecHosts.       *)
(***************************************************************************)
EXTENDS Integers, Sequences, FiniteSets, TLC

(* ------------------------------ bounds -------------------------------- *)
\* restarts_count is capped so that the state space is finite
MaxRestarts == 2
\* uptime_seconds readings are drawn from 0..MaxUptime
MaxUptime == 1
\* number of pending events in ui_queue the model follows
MaxQueue == 2
\* config.restart_delay_seconds of the modelled server
RestartDelay == 2
\* config.health_check_cpu_duration / health_check_gpu_duration, in seconds
CpuDuration == 3
GpuDuration == 1
\* consecutive failed connects the model counts
MaxFailures == 6
\* events put on ui_queue between two runs of the consumer
BusEvents == 6
\* ServerWorker objects that exist at a time
MaxWorkers == 3
\* starts of the command counted per server when two servers are followed
MaxStarts == 1
\* seconds the clock of the metrics store runs, and rows the table takes
MaxClock == 2
MaxRows == 2
\* the largest value of a jiffy counter of /proc/stat
MaxJiffies == 1
\* the lines the command writes before it ends
MaxLines == 3

(* ----------------------------- constants ------------------------------ *)
\* pid: Optional[int] = None
NoPid == 0
\* the pids the detector can report
Pids == {4711, 4712}
\* last_error: Optional[str] = None
NoError == "None"
\* the server name (config.name) carried by every event of the worker
Name == "h1"
\* exit codes a managed command can end with
ExitCodes == {0, 9}
\* what ssh.connect() reports when it fails
ConnectErrors == {"Private key not found"}

\* ServerConfig: the fields the worker loop and the health rules read
ServerConfig(e, h, c, g) ==
    [enabled |-> e, health_check_enabled |-> h,
     health_check_cpu_enabled |-> c, health_check_gpu_enabled |-> g]

\* the configurations of the modelled server: disabled; enabled without health
\* checks; health checks with the CPU rule, the GPU rule, both or none
Configs ==
    {ServerConfig(FALSE, FALSE, FALSE, FALSE), ServerConfig(TRUE, FALSE, FALSE, FALSE)}
    \cup {ServerConfig(TRUE, TRUE, c, g) : c \in BOOLEAN, g \in BOOLEAN}

Statuses == {"Disconnected", "Connecting", "Running", "Stopped", "Error", "External"}

VARIABLES
    state,                  \* ServerWorker.state (ServerState)
    running,                \* ServerWorker.running
    manual_stop_requested,  \* ServerWorker.manual_stop_requested
    thread_alive,           \* ServerWorker.thread is set and is_alive()
    ssh,                    \* ServerWorker.ssh: "None" | "Connected" | "Inactive" | "Closed"
    channel,                \* ServerWorker.channel: "None" | "Open" | "Closed"
    exit_status,            \* exit status the channel has received (NoExit: none yet)
    pc,                     \* where the worker thread is in _worker_loop
    ret,                    \* where _start_process / _handle_restart_delay returns to
    delay_i,                \* loop index of _handle_restart_delay
    ctl,                    \* where the UI thread is inside a control operation
    config,                 \* ServerWorker.config (the fields the worker reads)
    metrics_due,            \* a second has passed since _last_metrics_time
    prev_cpu_set,           \* _prev_cpu_total / _prev_cpu_idle hold a baseline
    cpu_below,              \* seconds since _cpu_below_threshold_start (NoTimer: None)
    gpu_below,              \* seconds since _gpu_below_threshold_start (NoTimer: None)
    registered,             \* config.name in ServerManager.workers
    proc,                   \* the process on the host matching the regex: "none" | "managed" | "external"
    remote_pid,             \* its pid
    ui_queue,               \* ServerManager.ui_queue
    failures,               \* history: failed connects since the last successful one
    cpu_session,            \* history: the baseline was read over the present SSH session
    output,                 \* the bytes of the command in the channel, and the lines pushed to the UI
    calls,                  \* the calls of _update_state in progress, of the UI thread and of the worker thread
    cpustat,                \* _prev_cpu_total / _prev_cpu_idle in jiffies, the line read last and the value returned
    fleet,                  \* the ServerManager: configs, workers and servers.json
    hosts,                  \* the workers of two servers side by side
    store,                  \* the metrics table, the clock and the chart of the viewer
    conf,                   \* servers.json on disk and the list load_servers returned
    probe                   \* what the last test_connection returned

vars == <<state, running, manual_stop_requested, thread_alive, ssh, channel,
          exit_status, pc, ret, delay_i, ctl, config, registered, proc,
          remote_pid, ui_queue, metrics_due, prev_cpu_set, cpu_below, gpu_below,
          failures, cpu_session, cpustat, output, calls, fleet, hosts, store, conf, probe>>

\* channel.exit_status before the command has ended
NoExit == -1
\* _cpu_below_threshold_start / _gpu_below_threshold_start = None
NoTimer == -1
\* a metric that could not be obtained (None)
NoSample == -1

(* --------------------------- models.py -------------------------------- *)
\* ServerState(): the dataclass defaults
ServerState == [status |-> "Disconnected", pid |-> NoPid, uptime_seconds |-> 0,
                restarts_count |-> 0, last_error |-> NoError, backoff_seconds |-> 5]

reset_backoff(s) == [s EXCEPT !.backoff_seconds = 5]

Min(a, b) == IF a < b THEN a ELSE b

\* increase_backoff, had it applied the cap before doubling
increase_backoff_late_cap(s) == [s EXCEPT !.backoff_seconds = Min(s.backoff_seconds, 60) * 2]

increase_backoff(s) == [s EXCEPT !.backoff_seconds = Min(s.backoff_seconds * 2, 60)]

(* --------------------------- ssh_client.py ---------------------------- *)
\* SSHClient.is_connected() of self.ssh (False as well when self.ssh is None)
is_connected(c) == c = "Connected"

\* self.ssh after `if self.ssh: self.ssh.close()`
ssh_close(c) == IF c = "None" THEN "None" ELSE "Closed"

\* self.channel after `if self.channel: self.channel.close()`
channel_close(ch) == IF ch = "None" THEN "None" ELSE "Closed"

\* a detector that never finds the process
detect_nothing(c, rp) == NoPid

\* detect_running_process(): the pid of the matching process, none when not connected
detect_running_process(c, rp) == IF is_connected(c) THEN rp ELSE NoPid

(* ----------------------------- worker.py ------------------------------ *)
StateEvent == [type |-> "state_update", server |-> Name]
LogEvent == [type |-> "log_line", server |-> Name]
\* the metrics event carries the sample (the model keeps its cpu reading)
MetricsEvent(cpu) == [type |-> "metrics_update", server |-> Name, cpu |-> cpu]

\* a put on a queue of capacity 4 that drops the oldest pending event when full
QueuePut_drop_oldest(q, ev) == IF Len(q) >= 4 THEN Append(Tail(q), ev) ELSE Append(q, ev)

\* Queue.put on the unbounded queue.Queue()
QueuePut_lost(q, ev) == q

QueuePut_front(q, ev) == <<ev>> \o q

QueuePut(q, ev) == Append(q, ev)

\* _update_state, had it started the record afresh on Stopped and Error
\* (restarts_count back to 0)
update_state_recount(s, st, p, e) ==
    LET s1 == [s EXCEPT !.status = st]
        s2 == IF p # NoPid THEN [s1 EXCEPT !.pid = p] ELSE s1
        s3 == IF e # NoError THEN [s2 EXCEPT !.last_error = e] ELSE s2
    IN  IF st = "Running" THEN [s3 EXCEPT !.last_error = NoError]
        ELSE IF st \in {"Stopped", "Error"}
             THEN [s3 EXCEPT !.pid = NoPid, !.uptime_seconds = 0, !.restarts_count = 0]
             ELSE s3

\* _update_state, had it counted every entry into Stopped as a restart
update_state_counting(s, st, p, e) ==
    LET s1 == [s EXCEPT !.status = st]
        s2 == IF p # NoPid THEN [s1 EXCEPT !.pid = p] ELSE s1
        s3 == IF e # NoError THEN [s2 EXCEPT !.last_error = e] ELSE s2
    IN  IF st = "Running" THEN [s3 EXCEPT !.last_error = NoError]
        ELSE IF st \in {"Stopped", "Error"}
             THEN [s3 EXCEPT !.pid = NoPid, !.uptime_seconds = 0,
                             !.restarts_count = IF @ < MaxRestarts THEN @ + 1 ELSE @]
             ELSE s3

\* the state part of _update_state(status, pid, error)
update_state(s, st, p, e) ==
    LET s1 == [s EXCEPT !.status = st]
        s2 == IF p # NoPid THEN [s1 EXCEPT !.pid = p] ELSE s1
        s3 == IF e # NoError THEN [s2 EXCEPT !.last_error = e] ELSE s2
    IN  IF st = "Running" THEN [s3 EXCEPT !.last_error = NoError]
        ELSE IF st \in {"Stopped", "Error"}
             THEN [s3 EXCEPT !.pid = NoPid, !.uptime_seconds = 0]
             ELSE s3

\* f"Exited with code {exit_code}"
ExitedWithCode(n) ==
    CASE n = 0 -> "Exited with code 0"
      [] n = 9 -> "Exited with code 9"
      [] OTHER -> "Exited with code -1"

\* room for k more events (the model follows at most MaxQueue pending events)
Room(k) == Len(ui_queue) + k <= MaxQueue

\* _prev_cpu_total = _prev_cpu_idle = None
NoBaseline == [total |-> -1, idle |-> -1]
\* the return value None of _sample_cpu (a percentage is num / den with den > 0)
NoUsage == [num |-> 0, den |-> 0]
\* ssh.run_simple("cat /proc/stat | head -n1") that failed
NoOutput == [ok |-> FALSE, head |-> "", nums |-> <<>>]
\* a worker that has not read /proc/stat yet
NoReading == [prev |-> NoBaseline, out |-> NoOutput, value |-> NoUsage]

\* a channel just opened by exec_command: nothing written, nothing read
NoOutputYet == [stdout |-> <<>>, stderr |-> <<>>, exit_ready |-> FALSE, closed |-> FALSE,
                wrote |-> <<>>, pushed |-> <<>>, at |-> "recv_ready"]

\* a thread that is not inside _update_state
NoCall == [at |-> "idle", status |-> "", pid |-> NoPid, error |-> NoError]
NoCalls == [ui |-> NoCall, worker |-> NoCall]

hvars == <<metrics_due, prev_cpu_set, cpu_below, gpu_below, failures, cpu_session, cpustat,
          output, calls>>

\* the variables of the manager and of the second server
mvars == <<fleet, hosts, store, conf, probe>>

(* ------------------ the fleet: ServerManager (manager.py) -------------- *)
\* the server names of the fleet
Names == {"h1", "h2"}

\* ServerConfig as far as the manager reads it: name and enabled
FleetConfig(n, e) == [name |-> n, enabled |-> e]

FleetConfigs == {FleetConfig(n, e) : n \in Names, e \in BOOLEAN}

\* an entry of servers.json: complete (name, host, port, username, auth with a
\* type) or not
FileEntry(n, e, c) == [name |-> n, enabled |-> e, complete |-> c]

FileEntries == {FileEntry(n, e, c) : n \in Names, e \in BOOLEAN, c \in BOOLEAN}

RECURSIVE load_servers(_)
\* config.load_servers: the complete entries of the file, in file order
load_servers(file) ==
    IF file = <<>> THEN <<>>
    ELSE LET d == Head(file)
         IN  IF d.complete
             THEN <<FleetConfig(d.name, d.enabled)>> \o load_servers(Tail(file))
             ELSE load_servers(Tail(file))

\* config.save_servers: one entry per configuration
save_servers(servers) ==
    [i \in 1..Len(servers) |-> FileEntry(servers[i].name, servers[i].enabled, TRUE)]

\* ValueError messages of add_server and edit_server
AlreadyExists == "already exists"
NotFound == "not found"

\* ServerManager.__init__ next to a servers.json holding file; objs are the
\* ServerWorker objects that exist, workers maps a name to its object, raised
\* is what the last operation raised
ServerManager(file) ==
    [configs |-> <<>>, workers |-> <<>>, objs |-> <<>>, file |-> file,
     loaded |-> FALSE, raised |-> NoError]

\* ServerWorker.__init__ as far as the manager is concerned
ServerWorker(cfg) ==
    [config |-> cfg, running |-> FALSE, manual_stop_requested |-> FALSE,
     thread_alive |-> FALSE]

\* ServerWorker.start_worker: nothing happens while the thread is alive
start_worker(w) ==
    IF w.thread_alive THEN w ELSE [w EXCEPT !.running = TRUE, !.thread_alive = TRUE]

\* ServerWorker.stop_worker: the thread is told to stop and is not joined
stop_worker(w) == [w EXCEPT !.manual_stop_requested = TRUE, !.running = FALSE]

\* dict assignment and del
put(f, k, v) == [x \in DOMAIN f \cup {k} |-> IF x = k THEN v ELSE f[x]]

drop(f, k) == [x \in DOMAIN f \ {k} |-> f[x]]

\* the identity of a new object: the first one not in use
new_id(objs) ==
    CHOOSE i \in 1..(Cardinality(DOMAIN objs) + 1) :
        i \notin DOMAIN objs /\ \A j \in 1..(i - 1) : j \in DOMAIN objs

\* an object lives while the workers dict refers to it or its thread runs
collect(m) ==
    LET used == {m.workers[n] : n \in DOMAIN m.workers}
        live == {i \in DOMAIN m.objs : i \in used \/ m.objs[i].thread_alive}
    IN  [m EXCEPT !.objs = [i \in live |-> m.objs[i]]]

\* worker = ServerWorker(config, self.ui_queue); self.workers[config.name] = worker
create_worker(m, cfg) ==
    LET i == new_id(m.objs)
    IN  [m EXCEPT !.objs = put(@, i, ServerWorker(cfg)), !.workers = put(@, cfg.name, i)]

\* the operation returned / raised ValueError(msg)
returned(m) == collect([m EXCEPT !.raised = NoError])

raise(m, msg) == [m EXCEPT !.raised = msg]

has_name(configs, n) == \E i \in 1..Len(configs) : configs[i].name = n

RECURSIVE create_workers(_, _)
\* the loop of load_configs: a worker for each configuration whose name has none
create_workers(m, cfgs) ==
    IF cfgs = <<>> THEN m
    ELSE create_workers(IF Head(cfgs).name \in DOMAIN m.workers
                         THEN m ELSE create_worker(m, Head(cfgs)),
                        Tail(cfgs))

load_configs(m) ==
    LET cfgs == load_servers(m.file)
    IN  returned(create_workers([m EXCEPT !.configs = cfgs, !.loaded = TRUE], cfgs))

add_server(m, cfg) ==
    IF has_name(m.configs, cfg.name) THEN raise(m, AlreadyExists)
    ELSE LET configs == Append(m.configs, cfg)
         IN  returned(create_worker([m EXCEPT !.configs = configs,
                                              !.file = save_servers(configs)], cfg))

\* stop the worker of a name and forget it
stop_and_forget(m, n) ==
    IF n \in DOMAIN m.workers
    THEN [m EXCEPT !.objs[m.workers[n]] = stop_worker(@), !.workers = drop(@, n)]
    ELSE m

edit_server_stop_first(m, old_name, new_config) ==
    LET m1 == stop_and_forget(m, old_name)
    IN  IF ~has_name(m.configs, old_name) THEN raise(m1, NotFound)
        ELSE IF new_config.name # old_name /\ has_name(m.configs, new_config.name)
        THEN raise(m1, AlreadyExists)
        ELSE returned(create_worker(m1, new_config))

edit_server(m, old_name, new_config) ==
    LET found == {i \in 1..Len(m.configs) : m.configs[i].name = old_name}
    IN  IF found = {} THEN raise(m, NotFound)
        ELSE IF new_config.name # old_name /\ has_name(m.configs, new_config.name)
        THEN raise(m, AlreadyExists)
        ELSE LET i == CHOOSE k \in found : \A j \in found : k <= j
                 configs == [m.configs EXCEPT ![i] = new_config]
                 m1 == stop_and_forget(m, old_name)
             IN  returned(create_worker([m1 EXCEPT !.configs = configs,
                                                   !.file = save_servers(configs)],
                                        new_config))

delete_server_keep_config(m, name) == returned(stop_and_forget(m, name))

delete_server(m, name) ==
    LET configs == SelectSeq(m.configs, LAMBDA c : c.name # name)
    IN  returned([stop_and_forget(m, name) EXCEPT !.configs = configs,
                                                  !.file = save_servers(configs)])

start_server(m, name) ==
    IF name \in DOMAIN m.workers
    THEN returned([m EXCEPT !.objs[m.workers[name]] =
                       start_worker([@ EXCEPT !.manual_stop_requested = FALSE])])
    ELSE returned(m)

stop_server(m, name) ==
    IF name \in DOMAIN m.workers
    THEN returned([m EXCEPT !.objs[m.workers[name]] = stop_worker(@)])
    ELSE returned(m)

\* start_all without the test of config.enabled
start_all_workers(m) ==
    LET used == {m.workers[n] : n \in DOMAIN m.workers}
    IN  returned([m EXCEPT !.objs =
            [i \in DOMAIN m.objs |->
                IF i \in used
                THEN start_worker([m.objs[i] EXCEPT !.manual_stop_requested = FALSE])
                ELSE m.objs[i]]])

start_all(m) ==
    LET used == {m.workers[n] : n \in DOMAIN m.workers}
    IN  returned([m EXCEPT !.objs =
            [i \in DOMAIN m.objs |->
                IF i \in used /\ m.objs[i].config.enabled
                THEN start_worker([m.objs[i] EXCEPT !.manual_stop_requested = FALSE])
                ELSE m.objs[i]]])

stop_all(m) ==
    LET used == {m.workers[n] : n \in DOMAIN m.workers}
    IN  returned([m EXCEPT !.objs =
            [i \in DOMAIN m.objs |->
                IF i \in used THEN stop_worker(m.objs[i]) ELSE m.objs[i]]])

\* the thread of object i leaves _worker_loop once running is False
worker_loop_exit(m, i) == collect([m EXCEPT !.objs[i].thread_alive = FALSE])

\* no test_connection has returned yet
Untested == [success |-> FALSE, info |-> "untested"]

\* what the SSHClient of test_connection meets: connect() fails, connect()
\* raises, or the session opens and ssh.test_connection() gathers the info
Connects == {"refused", "raises", "connected"}

\* test_connection with a worker registered for the tested configuration
test_connection_registering(m, cfg, met) ==
    [fleet |-> create_worker(m, cfg),
     answer |-> [success |-> met = "connected", info |-> met]]

\* ServerManager.test_connection: an SSHClient of its own is connected, asked
\* and closed; the manager is not touched
test_connection(m, cfg, met) ==
    [fleet |-> m,
     answer |-> IF met = "connected" THEN [success |-> TRUE, info |-> "info"]
                ELSE [success |-> FALSE, info |-> "error"]]

\* the second server is followed only in the specification of two servers
NoHosts == <<>>

(* ------------------- the metrics store (metrics_db.py) ---------------- *)
\* hours between local time and UTC on the machine that runs the application
UtcOffsets == {-1, 0, 1}

\* the table after init_db, the clock at 0, local time off hours ahead of UTC,
\* and the chart of the metrics viewer before its first refresh
MetricsStore(off) ==
    [rows |-> <<>>, now |-> 0, utcoffset |-> off, data |-> <<>>,
     server |-> "", seconds |-> 0, fresh |-> FALSE]

\* INSERT INTO metrics(server, ts, cpu, ...): the rows in the order of their ids
insert_metric(rows, server, ts, cpu) ==
    Append(rows, [server |-> server, ts |-> ts, cpu |-> cpu])

\* int(datetime.utcnow().timestamp()): the naive UTC time is read as local time
utcnow_timestamp(now, off) == now - off

\* int(time.time())
time_time(now, off) == now

RECURSIVE order_by_ts(_)
\* ORDER BY ts ASC (rows of one second in the order of their ids)
order_by_ts(rows) ==
    IF rows = <<>> THEN <<>>
    ELSE LET first == CHOOSE i \in 1..Len(rows) :
                          \A j \in 1..Len(rows) :
                              rows[i].ts < rows[j].ts \/ (rows[i].ts = rows[j].ts /\ i <= j)
         IN  <<rows[first]>>
             \o order_by_ts([k \in 1..(Len(rows) - 1) |->
                                IF k < first THEN rows[k] ELSE rows[k + 1]])

\* fetch_series(server, "cpu", seconds) at clock now: (ts, cpu) of the rows of
\* the server since since_ts that have a cpu value
fetch_series(st, server, seconds) ==
    LET since_ts == utcnow_timestamp(st.now, st.utcoffset) - seconds
        hit(r) == r.server = server /\ r.ts >= since_ts /\ r.cpu # NoSample
        found == order_by_ts(SelectSeq(st.rows, hit))
    IN  [i \in 1..Len(found) |-> <<found[i].ts, found[i].cpu>>]

(* ------------- servers.json (config.py, models.ServerConfig) ----------- *)
\* the keys of a server entry that are followed: name, host and auth are
\* required (port and username are read as host is), the others have a
\* default (working_dir, env, enabled, stop_command and the other health
\* check fields are read and written as pre_command and these two are)
Required == {"name", "host", "auth"}

Defaulted == {"command", "restart_delay_seconds", "process_match_regex", "pre_command",
              "health_check_enabled", "health_check_cpu_threshold"}

Keys == Required \cup Defaulted

\* JSON null
None == "None"

\* the default command, split at white space
DefaultCommand == <<"python3", "/home/v13/ultra_aggressive_worker.py">>

\* the values setdefault fills in for a missing key
Defaults ==
    [command |-> DefaultCommand, restart_delay_seconds |-> 12,
     process_match_regex |-> None, pre_command |-> "",
     health_check_enabled |-> FALSE, health_check_cpu_threshold |-> 50]

\* dict.setdefault for every defaulted key: a key that is present keeps its
\* value, null included
setdefaults(d) ==
    [k \in DOMAIN d \cup Defaulted |-> IF k \in DOMAIN d THEN d[k] ELSE Defaults[k]]

\* re.escape: a backslash before every special character
re_escape(s) ==
    CASE s = "/home/v13/ultra_aggressive_worker.py" -> "/home/v13/ultra_aggressive_worker\\.py"
      [] s = "w.py" -> "w\\.py"
      [] OTHER -> s

\* ServerConfig.__post_init__: a regex that is None or empty is derived from
\* the last word of the command, or from the whole command of fewer than two words
post_init(c) ==
    IF c.process_match_regex \in {None, ""}
    THEN [c EXCEPT !.process_match_regex =
                       IF Len(c.command) >= 2 THEN re_escape(c.command[Len(c.command)])
                       ELSE IF Len(c.command) = 1 THEN re_escape(c.command[1])
                       ELSE re_escape("")]
    ELSE c

\* ServerConfig(**server_data)
from_dict(d) == post_init([k \in Keys |-> d[k]])

\* ServerConfig.to_dict without the restart delay
to_dict_short(c) == [k \in Keys \ {"restart_delay_seconds"} |-> c[k]]

\* ServerConfig.to_dict: every field under its own name
to_dict(c) == [k \in Keys |-> c[k]]

\* get_default_config()["servers"]
get_default_config ==
    <<[name |-> "server-1", host |-> "113.201.14.131", auth |-> [type |-> "key"],
       command |-> DefaultCommand, restart_delay_seconds |-> 12]>>

\* servers.json: whether it exists and its "servers" list; servers is the list
\* load_servers returned last, first the list it returned first, orig the
\* entries before the first load, phase the last call
ConfigFile(exists, entries) ==
    [exists |-> exists, entries |-> entries, orig |-> entries,
     servers |-> <<>>, first |-> <<>>, phase |-> "new"]

\* the file load_servers reads: the default configuration is written when
\* there is none
config_read(f) == IF f.exists THEN f.entries ELSE get_default_config

RECURSIVE parse_servers(_)
\* the loop of load_servers: defaults are filled in, an entry without a
\* required key or without auth.type is skipped
parse_servers(entries) ==
    IF entries = <<>> THEN <<>>
    ELSE LET d == setdefaults(Head(entries))
         IN  IF Required \subseteq DOMAIN d /\ "type" \in DOMAIN d["auth"]
             THEN <<from_dict(d)>> \o parse_servers(Tail(entries))
             ELSE parse_servers(Tail(entries))

\* config.load_servers on the file f
load_config(f) == parse_servers(config_read(f))

\* config.save_servers: the file holds to_dict() of every configuration
save_config(servers) == [i \in 1..Len(servers) |-> to_dict(servers[i])]

\* a worker as __init__ leaves it, for a configuration from cfgs and a host on
\* which a process from procs matches the regex
WorkerCreated(cfgs, procs) ==
    /\ state = ServerState
    /\ running = FALSE
    /\ manual_stop_requested = FALSE
    /\ thread_alive = FALSE
    /\ ssh = "None"
    /\ channel = "None"
    /\ exit_status = NoExit
    /\ pc = "none"
    /\ ret = "loop"
    /\ delay_i = 0
    /\ ctl = "idle"
    /\ config \in cfgs
    /\ metrics_due = TRUE
    /\ prev_cpu_set = FALSE
    /\ cpu_session = FALSE
    /\ cpustat = NoReading
    /\ output = NoOutputYet
    /\ calls = NoCalls
    /\ cpu_below = NoTimer
    /\ gpu_below = NoTimer
    /\ registered = TRUE
    /\ proc \in procs
    /\ remote_pid \in (IF proc = "none" THEN {NoPid} ELSE Pids)
    /\ ui_queue = <<>>
    /\ failures = 0

\* one worker followed on its own: nothing happens in the manager
InitWorker(cfgs, procs) ==
    /\ WorkerCreated(cfgs, procs)
    /\ fleet = ServerManager(<<>>)
    /\ hosts = NoHosts
    /\ store = MetricsStore(0)
    /\ conf = ConfigFile(FALSE, <<>>)
    /\ probe = Untested

(* ------------------- the worker thread: _worker_loop ------------------ *)
\* `while self.running` is false: the loop and the thread end
LoopExit ==
    /\ pc = "loop" /\ ~running
    /\ pc' = "none" /\ thread_alive' = FALSE
    /\ UNCHANGED <<state, running, manual_stop_requested, ssh, channel, exit_status,
                   ret, delay_i, ctl, config, registered, proc, remote_pid, ui_queue, hvars, mvars>>

\* `if not self.config.enabled`: Stopped("Disabled"), sleep 5, continue
LoopDisabled ==
    /\ pc = "loop" /\ running /\ ~config.enabled /\ Room(1)
    /\ state' = update_state(state, "Stopped", NoPid, "Disabled")
    /\ ui_queue' = QueuePut(ui_queue, StateEvent)
    /\ UNCHANGED <<running, manual_stop_requested, thread_alive, ssh, channel, exit_status,
                   pc, ret, delay_i, ctl, config, registered, proc, remote_pid, hvars, mvars>>

\* _handle_disconnected up to time.sleep(self.state.backoff_seconds)
HandleDisconnected ==
    /\ pc = "loop" /\ running /\ config.enabled /\ state.status = "Disconnected" /\ Room(1)
    /\ state' = update_state(state, "Connecting", NoPid, NoError)
    /\ ui_queue' = QueuePut(ui_queue, StateEvent)
    /\ pc' = "backoff"
    /\ UNCHANGED <<running, manual_stop_requested, thread_alive, ssh, channel, exit_status,
                   ret, delay_i, ctl, config, registered, proc, remote_pid, hvars, mvars>>

\* _handle_disconnected: the sleep is over, a new SSHClient connects
ConnectOk ==
    /\ pc = "backoff"
    /\ ssh' = "Connected"
    /\ state' = reset_backoff(state)
    /\ pc' = "connected"
    /\ failures' = 0
    /\ cpu_session' = FALSE
    /\ UNCHANGED <<running, manual_stop_requested, thread_alive, channel, exit_status,
                   ret, delay_i, ctl, config, registered, proc, remote_pid, ui_queue,
                   metrics_due, prev_cpu_set, cpu_below, gpu_below, cpustat, output, calls, mvars>>

\* the state after a failed connect: _update_state(DISCONNECTED, error) then increase_backoff()
connect_failed(s, err) == increase_backoff(update_state(s, "Disconnected", NoPid, err))

ConnectFail ==
    /\ pc = "backoff" /\ Room(1)
    /\ \E err \in ConnectErrors : state' = connect_failed(state, err)
    /\ ui_queue' = QueuePut(ui_queue, StateEvent)
    /\ ssh' = "None"
    /\ pc' = "loop"
    /\ failures' = Min(failures + 1, MaxFailures)
    /\ UNCHANGED <<running, manual_stop_requested, thread_alive, channel, exit_status,
                   ret, delay_i, ctl, config, registered, proc, remote_pid,
                   metrics_due, prev_cpu_set, cpu_below, gpu_below, cpu_session, cpustat, output, calls, mvars>>

\* _handle_disconnected after a successful connect: detect, then External or _start_process
AfterConnect ==
    /\ pc = "connected"
    /\ LET p == detect_running_process(ssh, remote_pid) IN
         IF p # NoPid
         THEN /\ Room(1)
              /\ state' = update_state(state, "External", p,
                                       "Process already running (not started by us)")
              /\ ui_queue' = QueuePut(ui_queue, StateEvent)
              /\ pc' = "loop"
              /\ ret' = ret
         ELSE /\ pc' = "start"
              /\ ret' = "loop"
              /\ UNCHANGED <<state, ui_queue>>
    /\ UNCHANGED <<running, manual_stop_requested, thread_alive, ssh, channel, exit_status,
                   delay_i, ctl, config, registered, proc, remote_pid, hvars, mvars>>

\* _handle_connecting, and Stopped/Error with manual_stop_requested, only sleep:
\* they change nothing and are stuttering steps of the worker

(* --------------------------- _start_process --------------------------- *)
\* _start_process when the session is not connected: Disconnected("Not connected")
StartNotConnected ==
    /\ pc = "start" /\ ~is_connected(ssh) /\ Room(1)
    /\ state' = update_state(state, "Disconnected", NoPid, "Not connected")
    /\ ui_queue' = QueuePut(ui_queue, StateEvent)
    /\ pc' = ret
    /\ ret' = "loop"
    /\ UNCHANGED <<running, manual_stop_requested, thread_alive, ssh, channel, exit_status,
                   delay_i, ctl, config, registered, proc, remote_pid, hvars, mvars>>

\* what _start_process reports when the script is missing or exec_command fails
StartErrors == {"Script not found", "exec_command failed"}

\* _start_process: the script is missing on the host, or exec_command fails: Error
StartFailed ==
    /\ pc = "start" /\ is_connected(ssh) /\ Room(1)
    /\ \E err \in StartErrors : state' = update_state(state, "Error", NoPid, err)
    /\ ui_queue' = QueuePut(ui_queue, StateEvent)
    /\ pc' = ret
    /\ ret' = "loop"
    /\ UNCHANGED <<running, manual_stop_requested, thread_alive, ssh, channel, exit_status,
                   delay_i, ctl, config, registered, proc, remote_pid, hvars, mvars>>

\* _start_process up to time.sleep(1): the command runs on a new channel
StartExec ==
    /\ pc = "start" /\ is_connected(ssh)
    /\ channel' = "Open"
    /\ exit_status' = NoExit
    /\ proc' = "managed"
    /\ remote_pid' \in Pids
    /\ pc' = "start_grace"
    /\ UNCHANGED <<state, running, manual_stop_requested, thread_alive, ssh, ret, delay_i,
                   ctl, config, registered, ui_queue, hvars, mvars>>

\* a successful start, had it not been counted
started_uncounted(s, p) == update_state(s, "Running", p, NoError)

\* the state after a successful start: restarts_count += 1, then _update_state(RUNNING, pid, None)
started(s, p) ==
    update_state([s EXCEPT !.restarts_count = s.restarts_count + 1], "Running", p, NoError)

\* _start_process after the grace second: probe the pid, count the start, Running
StartProcessDone ==
    /\ pc = "start_grace" /\ Room(1)
    /\ state.restarts_count < MaxRestarts
    /\ state' = started(state, detect_running_process(ssh, remote_pid))
    /\ ui_queue' = QueuePut(ui_queue, StateEvent)
    /\ pc' = ret
    /\ ret' = "loop"
    /\ prev_cpu_set' = FALSE
    /\ cpu_session' = FALSE
    /\ UNCHANGED <<running, manual_stop_requested, thread_alive, ssh, channel, exit_status,
                   delay_i, ctl, config, registered, proc, remote_pid, metrics_due, cpu_below,
                   gpu_below, failures, cpustat, output, calls, mvars>>

(* ------------------------- metrics and health ------------------------- *)
\* config.health_check_cpu_threshold / health_check_gpu_threshold
health_check_cpu_threshold == 50
health_check_gpu_threshold == 50
\* the CPU and GPU readings a sample can report
CpuSamples == {20, 50, 80}
GpuSamples == {20, 80}

\* _sample_cpu, had it reported a percentage for a reading without a baseline
sample_cpu_eager(baseline, ok) ==
    IF ok THEN CpuSamples \cup {NoSample} ELSE {NoSample}

\* _sample_cpu: the values it can return, given whether a baseline is stored and
\* whether /proc/stat was read: none without both, else a percentage or none
sample_cpu(baseline, ok) ==
    IF baseline /\ ok THEN CpuSamples \cup {NoSample} ELSE {NoSample}

\* a timer after one more second (None stays None; the model stops counting at cap)
tick(t, cap) == IF t = NoTimer THEN NoTimer ELSE Min(t + 1, cap)

\* the rule, had it fired one second early
health_rule_early(on, v, threshold, duration, t) ==
    IF ~on \/ v = NoSample THEN [t |-> t, fire |-> FALSE]
    ELSE IF v < threshold
         THEN IF t = NoTimer THEN [t |-> 0, fire |-> FALSE]
              ELSE [t |-> t, fire |-> t >= duration - 1]
         ELSE [t |-> NoTimer, fire |-> FALSE]

\* one rule of _evaluate_health_checks: the timer after the sample, and whether it fires
health_rule(on, v, threshold, duration, t) ==
    IF ~on \/ v = NoSample THEN [t |-> t, fire |-> FALSE]
    ELSE IF v < threshold
         THEN IF t = NoTimer THEN [t |-> 0, fire |-> FALSE]
              ELSE [t |-> t, fire |-> t >= duration]
         ELSE [t |-> NoTimer, fire |-> FALSE]

\* _evaluate_health_checks(cpu, gpu_util): the two timers afterwards and the reason
\* of the restart it triggers ("" when none). A triggered restart clears both timers.
evaluate_health_checks(cfg, st, cpu, gpu, ct, gt) ==
    IF ~cfg.health_check_enabled THEN [cpu_t |-> ct, gpu_t |-> gt, reason |-> ""]
    ELSE IF st # "Running" THEN [cpu_t |-> NoTimer, gpu_t |-> NoTimer, reason |-> ""]
    ELSE LET c == health_rule(cfg.health_check_cpu_enabled, cpu,
                              health_check_cpu_threshold, CpuDuration, ct)
             g == health_rule(cfg.health_check_gpu_enabled, gpu,
                              health_check_gpu_threshold, GpuDuration, gt)
         IN  IF c.fire THEN [cpu_t |-> NoTimer, gpu_t |-> NoTimer, reason |-> "CPU usage too low"]
             ELSE IF g.fire
                  THEN [cpu_t |-> NoTimer, gpu_t |-> NoTimer, reason |-> "GPU usage too low"]
                  ELSE [cpu_t |-> c.t, gpu_t |-> g.t, reason |-> ""]

\* f"Health check: {reason}"
HealthError(reason) ==
    IF reason = "CPU usage too low" THEN "Health check: CPU usage too low"
    ELSE "Health check: GPU usage too low"

\* ssh.kill_process(stop_command) when the session is connected (nothing otherwise):
\* the matching process ends (k) or survives the user-supplied command
killed(k) == k /\ is_connected(ssh) /\ proc # "none"

KillProcess(k) ==
    /\ proc' = IF killed(k) THEN "none" ELSE proc
    /\ remote_pid' = IF killed(k) THEN NoPid ELSE remote_pid

\* a managed command that is killed leaves a non-zero exit status on its open channel
exit_after_kill(k) ==
    IF killed(k) /\ proc = "managed" /\ channel = "Open"
    THEN CHOOSE c \in ExitCodes : c # 0
    ELSE exit_status

\* _maybe_sample_metrics: not connected, or less than a second since the last sample
MetricsSkip ==
    /\ pc \in {"metrics", "ext_metrics"}
    /\ ~is_connected(ssh) \/ ~metrics_due
    /\ pc' = "loop"
    /\ UNCHANGED <<state, running, manual_stop_requested, thread_alive, ssh, channel,
                   exit_status, ret, delay_i, ctl, config, registered, proc, remote_pid,
                   ui_queue, hvars, mvars>>

\* what str(e) of a failed insert would read
InsertError == "Metrics DB insert failed"

\* a sampling tick in which a failed insert reaches the handler of _worker_loop
maybe_sample_metrics_raising(cfg, s, cpu, gpu, ct, gt, inserted) ==
    LET h == evaluate_health_checks(cfg, s.status, cpu, gpu, ct, gt)
    IN  [state |-> IF ~inserted THEN update_state(s, "Error", NoPid, InsertError)
                   ELSE IF h.reason = "" THEN s
                   ELSE update_state(s, "Stopped", NoPid, HealthError(h.reason)),
         events |-> IF ~inserted \/ h.reason # "" THEN <<StateEvent, MetricsEvent(cpu)>>
                    ELSE <<MetricsEvent(cpu)>>,
         cpu_t |-> h.cpu_t, gpu_t |-> h.gpu_t, restart |-> h.reason # ""]

\* _maybe_sample_metrics once the sample (cpu, gpu) is taken: the health rules are
\* evaluated, insert_metric succeeds (inserted) or raises and is swallowed, and
\* the metrics event is put; a triggered restart puts its state_update first
maybe_sample_metrics(cfg, s, cpu, gpu, ct, gt, inserted) ==
    LET h == evaluate_health_checks(cfg, s.status, cpu, gpu, ct, gt)
    IN  [state |-> IF h.reason = "" THEN s
                   ELSE update_state(s, "Stopped", NoPid, HealthError(h.reason)),
         events |-> IF h.reason = "" THEN <<MetricsEvent(cpu)>>
                    ELSE <<StateEvent, MetricsEvent(cpu)>>,
         cpu_t |-> h.cpu_t, gpu_t |-> h.gpu_t, restart |-> h.reason # ""]

\* _maybe_sample_metrics: sample, evaluate the health rules (and restart on a
\* violation: _trigger_health_restart), persist, push the metrics event
MetricsSample ==
    /\ pc \in {"metrics", "ext_metrics"}
    /\ is_connected(ssh) /\ metrics_due
    /\ metrics_due' = FALSE
    /\ \E ok \in BOOLEAN,
          gpu \in GpuSamples \cup {NoSample}, inserted \in BOOLEAN :
      \E cpu \in sample_cpu(prev_cpu_set, ok) :
         LET r == maybe_sample_metrics(config, state, cpu, gpu, cpu_below, gpu_below, inserted)
         IN  /\ prev_cpu_set' = (prev_cpu_set \/ ok)
             /\ cpu_session' = (IF ok THEN TRUE ELSE cpu_session)
             /\ cpu_below' = r.cpu_t
             /\ gpu_below' = r.gpu_t
             /\ Room(Len(r.events))
             /\ state' = r.state
             /\ ui_queue' = IF Len(r.events) = 1 THEN QueuePut(ui_queue, r.events[1])
                            ELSE QueuePut(QueuePut(ui_queue, r.events[1]), r.events[2])
             /\ IF r.restart
                THEN /\ \E k \in BOOLEAN : KillProcess(k)
                     /\ channel' = "None"
                     /\ exit_status' = NoExit
                ELSE UNCHANGED <<channel, proc, remote_pid, exit_status>>
    /\ pc' = "loop"
    /\ UNCHANGED <<running, manual_stop_requested, thread_alive, ssh, ret, delay_i, ctl,
                   config, registered, failures, cpustat, output, calls, mvars>>

(* --------------------------- _handle_running -------------------------- *)
\* the check at the top of _handle_running, had it reported the loss as an Error
RunLost_error ==
    /\ pc = "loop" /\ running /\ config.enabled /\ state.status = "Running"
    /\ channel = "None" \/ ~is_connected(ssh)
    /\ Room(1)
    /\ state' = update_state(state, "Error", NoPid, "Connection lost")
    /\ ui_queue' = QueuePut(ui_queue, StateEvent)
    /\ ssh' = "None"
    /\ UNCHANGED <<running, manual_stop_requested, thread_alive, channel, exit_status, pc,
                   ret, delay_i, ctl, config, registered, proc, remote_pid, hvars, mvars>>

\* no channel or no live session: Disconnected("Connection lost"), the session is released
RunLost ==
    /\ pc = "loop" /\ running /\ config.enabled /\ state.status = "Running"
    /\ channel = "None" \/ ~is_connected(ssh)
    /\ Room(1)
    /\ state' = update_state(state, "Disconnected", NoPid, "Connection lost")
    /\ ui_queue' = QueuePut(ui_queue, StateEvent)
    /\ ssh' = "None"
    /\ UNCHANGED <<running, manual_stop_requested, thread_alive, channel, exit_status, pc,
                   ret, delay_i, ctl, config, registered, proc, remote_pid, hvars, mvars>>

\* the uptime refresh (u: the reading int(time.time() - process_start_time)) and,
\* when five seconds have passed (due) and no pid is known, the pid refresh
RunTick ==
    /\ pc = "loop" /\ running /\ config.enabled /\ state.status = "Running"
    /\ channel # "None" /\ is_connected(ssh)
    /\ \E u \in 0..MaxUptime, due \in BOOLEAN :
         LET s1 == [state EXCEPT !.uptime_seconds = u]
             p  == detect_running_process(ssh, remote_pid)
         IN  IF due /\ s1.pid = NoPid /\ p # NoPid
             THEN /\ Room(2)
                  /\ state' = update_state(s1, "Running", p, NoError)
                  /\ ui_queue' = QueuePut(QueuePut(ui_queue, StateEvent), StateEvent)
             ELSE /\ Room(1)
                  /\ state' = s1
                  /\ ui_queue' = QueuePut(ui_queue, StateEvent)
    /\ pc' = "run_io"
    /\ UNCHANGED <<running, manual_stop_requested, thread_alive, ssh, channel, exit_status,
                   ret, delay_i, ctl, config, registered, proc, remote_pid, hvars, mvars>>

\* channel.exit_status_ready(): an exit status has arrived or the channel is closed
exit_status_ready(ch, es) == ch = "Closed" \/ es # NoExit

\* the exit check, had it reported every exit as Stopped
exited_stopped(s, n) == update_state(s, "Stopped", NoPid, ExitedWithCode(n))

\* the exit check, had it kept the pid and the uptime of the run
exited_keeping_pid(s, n) ==
    [update_state(s, IF n = 0 THEN "Stopped" ELSE "Error", NoPid, ExitedWithCode(n))
        EXCEPT !.pid = s.pid, !.uptime_seconds = s.uptime_seconds]

\* the state after the exit check found the command ended with code n
exited(s, n) ==
    update_state(s, IF n = 0 THEN "Stopped" ELSE "Error", NoPid, ExitedWithCode(n))

\* the pending output is read (n lines) and the command has ended
RunExit ==
    /\ pc = "run_io" /\ exit_status_ready(channel, exit_status)
    /\ \E n \in 0..1 :
         /\ Room(n + 1)
         /\ ui_queue' = QueuePut(IF n = 1 THEN QueuePut(ui_queue, LogEvent) ELSE ui_queue,
                                 StateEvent)
    /\ state' = exited(state, exit_status)
    /\ channel' = "None"
    /\ exit_status' = NoExit
    /\ pc' = "loop"
    /\ UNCHANGED <<running, manual_stop_requested, thread_alive, ssh, ret, delay_i, ctl,
                   config, registered, proc, remote_pid, hvars, mvars>>

\* the pending output is read (n lines), the command has not ended; sleep 0.1
RunRead ==
    /\ pc = "run_io" /\ ~exit_status_ready(channel, exit_status)
    /\ \E n \in 0..1 :
         /\ Room(n)
         /\ ui_queue' = IF n = 1 THEN QueuePut(ui_queue, LogEvent) ELSE ui_queue
    /\ pc' = "metrics"
    /\ UNCHANGED <<state, running, manual_stop_requested, thread_alive, ssh, channel,
                   exit_status, ret, delay_i, ctl, config, registered, proc, remote_pid,
                   hvars, mvars>>

\* the stream error, had it closed the session as well
RunStreamError_teardown ==
    /\ pc = "run_io" /\ Room(1)
    /\ state' = update_state(state, "Error", NoPid, "Socket exception")
    /\ ui_queue' = QueuePut(ui_queue, StateEvent)
    /\ channel' = "None"
    /\ ssh' = "None"
    /\ exit_status' = NoExit
    /\ pc' = "metrics"
    /\ UNCHANGED <<running, manual_stop_requested, thread_alive, ret, delay_i, ctl,
                   config, registered, proc, remote_pid, hvars, mvars>>

\* reading the channel raises: Error(str(e)), the channel is closed and released
RunStreamError ==
    /\ pc = "run_io" /\ Room(1)
    /\ state' = update_state(state, "Error", NoPid, "Socket exception")
    /\ ui_queue' = QueuePut(ui_queue, StateEvent)
    /\ channel' = "None"
    /\ exit_status' = NoExit
    /\ pc' = "metrics"
    /\ UNCHANGED <<running, manual_stop_requested, thread_alive, ssh, ret, delay_i, ctl,
                   config, registered, proc, remote_pid, hvars, mvars>>

(* -------------------------- _handle_external -------------------------- *)
HandleExternal ==
    /\ pc = "loop" /\ running /\ config.enabled /\ state.status = "External"
    /\ LET p == detect_running_process(ssh, remote_pid) IN
         IF ~is_connected(ssh)
         THEN /\ Room(1)
              /\ state' = update_state(state, "Disconnected", NoPid, "Connection lost")
              /\ ui_queue' = QueuePut(ui_queue, StateEvent)
              /\ ssh' = "None"
              /\ UNCHANGED <<pc, ret, delay_i>>
         ELSE IF p # NoPid
         THEN /\ IF state.pid # p
                 THEN /\ Room(1)
                      /\ state' = update_state(state, "External", p, NoError)
                      /\ ui_queue' = QueuePut(ui_queue, StateEvent)
                 ELSE UNCHANGED <<state, ui_queue>>
              /\ UNCHANGED <<ssh, pc, ret, delay_i>>
         ELSE /\ Room(1)
              /\ state' = update_state(state, "Stopped", NoPid, "External process ended")
              /\ ui_queue' = QueuePut(ui_queue, StateEvent)
              /\ pc' = "delay"
              /\ ret' = "ext_metrics"
              /\ delay_i' = 0
              /\ ssh' = ssh
    /\ UNCHANGED <<running, manual_stop_requested, thread_alive, channel, exit_status, ctl,
                   config, registered, proc, remote_pid, hvars, mvars>>

(* ------------------------ _handle_restart_delay ----------------------- *)
\* Stopped or Error handled like a manual stop: sleep a second and loop
HandleStopped_idle ==
    /\ pc = "loop" /\ running /\ config.enabled
    /\ state.status \in {"Stopped", "Error"} /\ ~manual_stop_requested
    /\ UNCHANGED vars

\* Stopped or Error without a manual stop: the worker loop enters the restart delay
HandleStopped ==
    /\ pc = "loop" /\ running /\ config.enabled
    /\ state.status \in {"Stopped", "Error"} /\ ~manual_stop_requested
    /\ pc' = "delay"
    /\ ret' = "loop"
    /\ delay_i' = 0
    /\ UNCHANGED <<state, running, manual_stop_requested, thread_alive, ssh, channel,
                   exit_status, ctl, config, registered, proc, remote_pid, ui_queue, hvars, mvars>>

\* one round of `for i in range(delay)`: return on a stop, else sleep a second
DelayAbort ==
    /\ pc = "delay" /\ delay_i < RestartDelay
    /\ ~running \/ manual_stop_requested
    /\ pc' = ret
    /\ ret' = "loop"
    /\ delay_i' = 0
    /\ UNCHANGED <<state, running, manual_stop_requested, thread_alive, ssh, channel,
                   exit_status, ctl, config, registered, proc, remote_pid,
                   ui_queue, hvars, mvars>>

DelayStep ==
    /\ pc = "delay" /\ delay_i < RestartDelay
    /\ running /\ ~manual_stop_requested
    /\ delay_i' = delay_i + 1
    /\ UNCHANGED <<state, running, manual_stop_requested, thread_alive, ssh, channel,
                   exit_status, pc, ret, ctl, config, registered, proc, remote_pid,
                   ui_queue, hvars, mvars>>

\* the delay is over: _start_process when connected, else Disconnected
DelayDone ==
    /\ pc = "delay" /\ delay_i = RestartDelay
    /\ IF is_connected(ssh)
       THEN /\ pc' = "start"
            /\ UNCHANGED <<state, ui_queue, ret>>
       ELSE /\ Room(1)
            /\ state' = update_state(state, "Disconnected", NoPid,
                                     "Connection lost, reconnecting...")
            /\ ui_queue' = QueuePut(ui_queue, StateEvent)
            /\ pc' = ret
            /\ ret' = "loop"
    /\ delay_i' = 0
    /\ UNCHANGED <<running, manual_stop_requested, thread_alive, ssh, channel, exit_status,
                   ctl, config, registered, proc, remote_pid, hvars, mvars>>

(* ------------- control operations (manager.py, on the UI thread) ------ *)
\* start_server: manual_stop_requested = False, then start_worker(), which returns
\* at once when the thread is still alive
StartServer ==
    /\ ctl = "idle" /\ registered
    /\ manual_stop_requested' = FALSE
    /\ IF thread_alive
       THEN UNCHANGED <<running, thread_alive, pc>>
       ELSE /\ running' = TRUE
            /\ thread_alive' = TRUE
            /\ pc' = "loop"
    /\ UNCHANGED <<state, ssh, channel, exit_status, ret, delay_i, ctl, config, registered,
                   proc, remote_pid, ui_queue, hvars, mvars>>

\* stop_worker (op: "stop" for stop_server, "delete" for delete_server, which then
\* removes the worker from self.workers). With a connected session it first runs
\* ssh.kill_process, which blocks for more than a second: the operation is then two
\* steps. The state it leaves: channel and session closed, Stopped("Manually stopped").
StopWorkerFinish(op) ==
    /\ Room(1)
    /\ channel' = channel_close(channel)
    /\ ssh' = ssh_close(ssh)
    /\ state' = update_state(state, "Stopped", NoPid, "Manually stopped")
    /\ ui_queue' = QueuePut(ui_queue, StateEvent)
    /\ ctl' = "idle"
    /\ registered' = (op # "delete")

StopWorkerBegin(op) ==
    /\ ctl = "idle" /\ registered
    /\ running' = FALSE
    /\ manual_stop_requested' = TRUE
    /\ IF is_connected(ssh)
       THEN /\ \E k \in BOOLEAN : KillProcess(k) /\ exit_status' = exit_after_kill(k)
            /\ ctl' = op
            /\ UNCHANGED <<state, ssh, channel, registered, ui_queue>>
       ELSE /\ StopWorkerFinish(op)
            /\ UNCHANGED <<proc, remote_pid, exit_status>>
    /\ UNCHANGED <<thread_alive, pc, ret, delay_i, config, hvars, mvars>>

StopWorkerEnd(op) ==
    /\ ctl = op
    /\ StopWorkerFinish(op)
    /\ UNCHANGED <<running, manual_stop_requested, thread_alive, exit_status, pc, ret,
                   delay_i, config, proc, remote_pid, hvars, mvars>>

StopServer == StopWorkerBegin("stop") \/ StopWorkerEnd("stop")

\* delete_server: stop_worker(), then del self.workers[name]
DeleteServer == StopWorkerBegin("delete") \/ StopWorkerEnd("delete")

\* request_restart: close the channel, Stopped("Restarting...")
RequestRestartFinish ==
    /\ Room(1)
    /\ channel' = channel_close(channel)
    /\ state' = update_state(state, "Stopped", NoPid, "Restarting...")
    /\ ui_queue' = QueuePut(ui_queue, StateEvent)
    /\ ctl' = "idle"

\* force_restart: Stopped("Force restarting..."); the channel is left as it is
ForceRestartFinish ==
    /\ Room(1)
    /\ channel' = channel
    /\ state' = update_state(state, "Stopped", NoPid, "Force restarting...")
    /\ ui_queue' = QueuePut(ui_queue, StateEvent)
    /\ ctl' = "idle"

\* request_restart (op "restart") / force_restart (op "force"): two steps when the
\* session is connected and ssh.kill_process runs first
RestartBegin(op) ==
    /\ ctl = "idle" /\ registered
    /\ manual_stop_requested' = FALSE
    /\ IF is_connected(ssh)
       THEN /\ \E k \in BOOLEAN : KillProcess(k) /\ exit_status' = exit_after_kill(k)
            /\ ctl' = op
            /\ UNCHANGED <<state, channel, ui_queue>>
       ELSE /\ IF op = "restart" THEN RequestRestartFinish ELSE ForceRestartFinish
            /\ UNCHANGED <<proc, remote_pid, exit_status>>
    /\ UNCHANGED <<running, thread_alive, ssh, pc, ret, delay_i, config, registered, hvars, mvars>>

RestartEnd(op) ==
    /\ ctl = op
    /\ IF op = "restart" THEN RequestRestartFinish ELSE ForceRestartFinish
    /\ UNCHANGED <<running, manual_stop_requested, thread_alive, ssh, exit_status, pc, ret,
                   delay_i, config, registered, proc, remote_pid, hvars, mvars>>

RestartServer == RestartBegin("restart") \/ RestartEnd("restart")

ForceRestartServer == RestartBegin("force") \/ RestartEnd("force")

(* ------------------- the consumer (main.py, _update_ui) --------------- *)
\* `while not ui_queue.empty(): get_nowait()`: the UI thread drains the queue
UpdateUI ==
    /\ ctl = "idle" /\ ui_queue # <<>>
    /\ ui_queue' = <<>>
    /\ UNCHANGED <<state, running, manual_stop_requested, thread_alive, ssh, channel,
                   exit_status, pc, ret, delay_i, ctl, config, registered, proc, remote_pid,
                   hvars, mvars>>

(* --------------------------- the environment -------------------------- *)
\* the SSH transport becomes inactive
ConnectionLost ==
    /\ ssh = "Connected"
    /\ ssh' = "Inactive"
    /\ UNCHANGED <<state, running, manual_stop_requested, thread_alive, channel, exit_status,
                   pc, ret, delay_i, ctl, config, registered, proc, remote_pid, ui_queue,
                   hvars, mvars>>

\* the matching process on the host ends; a managed one reports its exit code on the channel
ProcessExit ==
    /\ proc # "none"
    /\ proc' = "none"
    /\ remote_pid' = NoPid
    /\ IF proc = "managed" /\ channel = "Open"
       THEN exit_status' \in ExitCodes
       ELSE exit_status' = exit_status
    /\ UNCHANGED <<state, running, manual_stop_requested, thread_alive, ssh, channel, pc,
                   ret, delay_i, ctl, config, registered, ui_queue, hvars, mvars>>

\* somebody else starts a matching process on the host
ExternalStart ==
    /\ proc = "none"
    /\ proc' = "external"
    /\ remote_pid' \in Pids
    /\ UNCHANGED <<state, running, manual_stop_requested, thread_alive, ssh, channel,
                   exit_status, pc, ret, delay_i, ctl, config, registered, ui_queue, hvars, mvars>>

\* a second passes: the next metrics sample is due, the health timers grow. The
\* worker reads these clocks only in _maybe_sample_metrics, so the model lets the
\* time pass there.
Tick ==
    /\ pc \in {"metrics", "ext_metrics"}
    /\ metrics_due' = TRUE
    /\ cpu_below' = tick(cpu_below, CpuDuration)
    /\ gpu_below' = tick(gpu_below, GpuDuration)
    /\ UNCHANGED <<state, running, manual_stop_requested, thread_alive, ssh, channel,
                   exit_status, pc, ret, delay_i, ctl, config, registered, proc, remote_pid,
                   ui_queue, prev_cpu_set, failures, cpu_session, cpustat,
                   output, calls, mvars>>

Worker ==
    \/ LoopExit \/ LoopDisabled \/ HandleDisconnected \/ ConnectOk \/ ConnectFail
    \/ AfterConnect \/ StartNotConnected \/ StartFailed \/ StartExec \/ StartProcessDone
    \/ RunLost \/ RunTick \/ RunExit \/ RunRead \/ RunStreamError
    \/ MetricsSkip \/ MetricsSample
    \/ HandleExternal \/ HandleStopped \/ DelayAbort \/ DelayStep \/ DelayDone

Control == StartServer \/ StopServer \/ RestartServer \/ ForceRestartServer \/ DeleteServer

Environment == ConnectionLost \/ ProcessExit \/ ExternalStart \/ Tick

Next == Worker \/ Control \/ UpdateUI \/ Environment

\* servers without health checks, under every control operation
Init == InitWorker({c \in Configs : ~c.health_check_enabled}, {"none", "external"})

Spec == Init /\ [][Next]_vars

\* servers with the CPU health rule, under start, stop, restart and force restart
InitHealth ==
    InitWorker({ServerConfig(FALSE, FALSE, FALSE, FALSE), ServerConfig(TRUE, TRUE, TRUE, FALSE)},
               {"none"})

NextHealth ==
    \/ Worker \/ StartServer \/ StopServer \/ RestartServer \/ ForceRestartServer
    \/ UpdateUI
    \/ ConnectionLost \/ ProcessExit \/ Tick

SpecHealth == InitHealth /\ [][NextHealth]_vars

(* ---- the worker left alone on a reachable host: every connect and every ---- *)
(* ---- start succeeds, the session stays up, nobody stops or restarts    ---- *)
InitNominal ==
    InitWorker({ServerConfig(TRUE, FALSE, FALSE, FALSE), ServerConfig(TRUE, TRUE, TRUE, FALSE)},
               {"none", "external"})

WorkerNominal ==
    \/ HandleDisconnected \/ ConnectOk \/ AfterConnect \/ StartExec \/ StartProcessDone
    \/ RunTick \/ RunExit \/ RunRead \/ MetricsSkip \/ MetricsSample
    \/ HandleExternal \/ HandleStopped \/ DelayStep \/ DelayDone

NextNominal == WorkerNominal \/ StartServer \/ UpdateUI \/ ProcessExit \/ ExternalStart \/ Tick

\* the worker thread keeps running and the UI timer keeps draining the queue
SpecNominal ==
    InitNominal /\ [][NextNominal]_vars /\ WF_vars(WorkerNominal) /\ WF_vars(UpdateUI)

(* ---- the worker facing a host on which every connect attempt fails ---- *)
InitUnreachable == InitWorker({ServerConfig(TRUE, FALSE, FALSE, FALSE)}, {"none", "external"})

NextUnreachable ==
    \/ StartServer \/ HandleDisconnected \/ ConnectFail \/ UpdateUI
    \/ ProcessExit \/ ExternalStart

SpecUnreachable == InitUnreachable /\ [][NextUnreachable]_vars

(* ---- the queue between its producers and the consumer: up to BusEvents ---- *)
(* ---- events are put by _push_update, _push_log_line and the metrics    ---- *)
(* ---- push before _update_ui runs; seq is the event's place among the    ---- *)
(* ---- events put since the consumer last ran                             ---- *)
wvars == <<state, running, manual_stop_requested, thread_alive, ssh, channel,
           exit_status, pc, ret, delay_i, ctl, config, registered, proc,
           remote_pid, hvars, mvars>>

Stamped(ev, n) == [type |-> ev.type, server |-> ev.server, seq |-> n]

BusPut(ev) ==
    /\ Len(ui_queue) < BusEvents
    /\ ui_queue' = QueuePut(ui_queue, Stamped(ev, Len(ui_queue) + 1))
    /\ UNCHANGED wvars

PushUpdate == BusPut(StateEvent)

PushLogLine == BusPut(LogEvent)

PushMetrics == BusPut(MetricsEvent(NoSample))

NextBus == PushUpdate \/ PushLogLine \/ PushMetrics \/ UpdateUI

SpecBus == Init /\ [][NextBus]_vars

(* ---- the worker on a host where the script of the command may be     ---- *)
(* ---- missing: the server is started once and then left alone         ---- *)
InitScript == InitWorker({ServerConfig(TRUE, FALSE, FALSE, FALSE)}, {"none"})

\* start_server while no worker thread exists
FirstStart == ~thread_alive /\ StartServer

WorkerScript ==
    \/ HandleDisconnected \/ ConnectOk \/ AfterConnect
    \/ StartFailed \/ StartExec \/ StartProcessDone
    \/ RunTick \/ RunExit \/ RunRead \/ MetricsSkip \/ MetricsSample
    \/ HandleStopped \/ DelayStep \/ DelayDone

NextScript == WorkerScript \/ FirstStart \/ UpdateUI \/ ProcessExit \/ Tick

\* the worker thread keeps running and the UI timer keeps draining the queue
SpecScript ==
    InitScript /\ [][NextScript]_vars /\ WF_vars(WorkerScript) /\ WF_vars(UpdateUI)

(* ---- the worker on a host whose SSH transport can become inactive at ---- *)
(* ---- any time; nobody stops or restarts the server                   ---- *)
WorkerLost ==
    \/ HandleDisconnected \/ ConnectOk \/ AfterConnect
    \/ StartNotConnected \/ StartExec \/ StartProcessDone
    \/ RunLost \/ RunTick \/ RunExit \/ RunRead \/ RunStreamError
    \/ MetricsSkip \/ MetricsSample
    \/ HandleStopped \/ DelayStep \/ DelayDone

NextLost == WorkerLost \/ FirstStart \/ UpdateUI \/ ConnectionLost \/ ProcessExit \/ Tick

\* the worker thread keeps running and the UI timer keeps draining the queue
SpecLost ==
    InitScript /\ [][NextLost]_vars /\ WF_vars(WorkerLost) /\ WF_vars(UpdateUI)

(* ---- the manager on the UI thread: servers.json is loaded once at     ---- *)
(* ---- startup, then servers are added, edited, deleted, started and   ---- *)
(* ---- stopped by name while the worker threads end in their own time  ---- *)
qvars == <<state, running, manual_stop_requested, thread_alive, ssh, channel,
           exit_status, pc, ret, delay_i, ctl, config, registered, proc,
           remote_pid, ui_queue, hvars, hosts, store, conf>>

svars == <<qvars, probe>>

\* servers.json at startup: up to as many entries as there are names
Files == UNION {[1..n -> FileEntries] : n \in 0..Cardinality(Names)}

InitFleet ==
    /\ WorkerCreated({ServerConfig(TRUE, FALSE, FALSE, FALSE)}, {"none"})
    /\ fleet \in {ServerManager(file) : file \in Files}
    /\ hosts = NoHosts
    /\ store = MetricsStore(0)
    /\ conf = ConfigFile(FALSE, <<>>)
    /\ probe = Untested

\* a new ServerWorker can be followed
CanCreate == Cardinality(DOMAIN fleet.objs) < MaxWorkers

FleetLoad ==
    /\ ~fleet.loaded
    /\ fleet' = load_configs(fleet)
    /\ UNCHANGED svars

FleetAdd ==
    /\ fleet.loaded /\ CanCreate
    /\ \E cfg \in FleetConfigs : fleet' = add_server(fleet, cfg)
    /\ UNCHANGED svars

FleetEdit ==
    /\ fleet.loaded /\ CanCreate
    /\ \E old_name \in Names, cfg \in FleetConfigs : fleet' = edit_server(fleet, old_name, cfg)
    /\ UNCHANGED svars

FleetDelete ==
    /\ fleet.loaded
    /\ \E name \in Names : fleet' = delete_server(fleet, name)
    /\ UNCHANGED svars

FleetStart ==
    /\ fleet.loaded
    /\ \E name \in Names : fleet' = start_server(fleet, name)
    /\ UNCHANGED svars

FleetStop ==
    /\ fleet.loaded
    /\ \E name \in Names : fleet' = stop_server(fleet, name)
    /\ UNCHANGED svars

FleetStartAll ==
    /\ fleet.loaded
    /\ fleet' = start_all(fleet)
    /\ UNCHANGED svars

FleetStopAll ==
    /\ fleet.loaded
    /\ fleet' = stop_all(fleet)
    /\ UNCHANGED svars

FleetWorkerExit ==
    /\ \E i \in DOMAIN fleet.objs :
          /\ fleet.objs[i].thread_alive /\ ~fleet.objs[i].running
          /\ fleet' = worker_loop_exit(fleet, i)
    /\ UNCHANGED svars

NextFleet ==
    \/ FleetLoad \/ FleetAdd \/ FleetEdit \/ FleetDelete
    \/ FleetStart \/ FleetStop \/ FleetStartAll \/ FleetStopAll
    \/ FleetWorkerExit

SpecFleet == InitFleet /\ [][NextFleet]_vars

(* ---- the manager while connections are tested from the dialog ---- *)
FleetTestConnection ==
    /\ \E cfg \in FleetConfigs, met \in Connects :
          LET r == test_connection(fleet, cfg, met)
          IN  fleet' = r.fleet /\ probe' = r.answer
    /\ UNCHANGED qvars

NextTest ==
    \/ FleetLoad \/ FleetStart \/ FleetStop \/ FleetWorkerExit
    \/ FleetTestConnection

SpecTest == InitFleet /\ [][NextTest]_vars

(* ---- two servers side by side: each ServerWorker has its own state,   ---- *)
(* ---- session, channel and flags; they share the ui_queue. A step is  ---- *)
(* ---- what one handler or one control operation does to its worker    ---- *)
\* ServerWorker.__init__: the fields of one worker
Host ==
    [state |-> ServerState, running |-> FALSE, manual_stop_requested |-> FALSE,
     thread_alive |-> FALSE, ssh |-> "None", channel |-> "None"]

\* every worker of the map becomes w
on_all_hosts(hs, h, w) == [x \in DOMAIN hs |-> w]

\* self.workers[name] (manager.py) and self (worker.py): the worker of h becomes w
on_host(hs, h, w) == [hs EXCEPT ![h] = w]

\* the state_update event of server h
HostEvent(h) == [type |-> "state_update", server |-> h]

\* str(e) of an exception caught by _worker_loop
LoopErrors == {"Unexpected error"}

ovars == <<state, running, manual_stop_requested, thread_alive, ssh, channel,
           exit_status, pc, ret, delay_i, ctl, config, registered, proc,
           remote_pid, hvars, fleet, store, conf, probe>>

\* the worker of h becomes w and reports it with a state_update event (one
\* pending event is followed: the consumer has taken the one before)
HostUpdate(h, w) ==
    /\ ui_queue = <<>>
    /\ hosts' = on_host(hosts, h, w)
    /\ ui_queue' = QueuePut(ui_queue, HostEvent(h))
    /\ UNCHANGED ovars

\* the worker of h becomes w and no event is put
HostSilent(h, w) ==
    /\ hosts' = on_host(hosts, h, w)
    /\ UNCHANGED <<ui_queue, ovars>>

\* the worker thread of h is in its loop
Looping(h) == hosts[h].thread_alive /\ hosts[h].running

HostStart(h) ==
    HostSilent(h, start_worker([hosts[h] EXCEPT !.manual_stop_requested = FALSE]))

HostStop(h) ==
    HostUpdate(h, [stop_worker(hosts[h]) EXCEPT
                       !.channel = channel_close(@), !.ssh = ssh_close(@),
                       !.state = update_state(@, "Stopped", NoPid, "Manually stopped")])

HostRestart(h) ==
    HostUpdate(h, [hosts[h] EXCEPT
                       !.manual_stop_requested = FALSE, !.channel = channel_close(@),
                       !.state = update_state(@, "Stopped", NoPid, "Restarting...")])

HostForceRestart(h) ==
    HostUpdate(h, [hosts[h] EXCEPT
                       !.manual_stop_requested = FALSE,
                       !.state = update_state(@, "Stopped", NoPid, "Force restarting...")])

HostLoopExit(h) ==
    /\ hosts[h].thread_alive /\ ~hosts[h].running
    /\ HostSilent(h, [hosts[h] EXCEPT !.thread_alive = FALSE])

\* _handle_disconnected, the connect fails
HostConnectFail(h) ==
    /\ Looping(h) /\ hosts[h].state.status = "Disconnected"
    /\ \E err \in ConnectErrors :
          HostUpdate(h, [hosts[h] EXCEPT !.state = connect_failed(@, err), !.ssh = "None"])

\* _handle_disconnected, the connect succeeds and no process is found
HostConnectOk(h) ==
    /\ Looping(h) /\ hosts[h].state.status = "Disconnected"
    /\ HostUpdate(h, [hosts[h] EXCEPT
                          !.state = reset_backoff(update_state(@, "Connecting", NoPid, NoError)),
                          !.ssh = "Connected"])

\* the worker of h is about to call _start_process on a live session
Starting(h) ==
    /\ Looping(h) /\ is_connected(hosts[h].ssh)
    /\ \/ hosts[h].state.status = "Connecting"
       \/ hosts[h].state.status \in {"Stopped", "Error"} /\ ~hosts[h].manual_stop_requested

HostStartProcess(h) ==
    /\ Starting(h) /\ hosts[h].state.restarts_count < MaxStarts
    /\ \E p \in Pids :
          HostUpdate(h, [hosts[h] EXCEPT !.state = started(@, p), !.channel = "Open"])

HostStartFailed(h) ==
    /\ Starting(h)
    /\ \E err \in StartErrors :
          HostUpdate(h, [hosts[h] EXCEPT !.state = update_state(@, "Error", NoPid, err)])

\* _handle_restart_delay finds the session gone
HostReconnect(h) ==
    /\ Looping(h) /\ ~is_connected(hosts[h].ssh)
    /\ hosts[h].state.status \in {"Stopped", "Error"} /\ ~hosts[h].manual_stop_requested
    /\ HostUpdate(h, [hosts[h] EXCEPT
                          !.state = update_state(@, "Disconnected", NoPid,
                                                 "Connection lost, reconnecting...")])

\* _handle_running, the command has ended with code n
HostProcessExit(h) ==
    /\ Looping(h) /\ hosts[h].state.status = "Running"
    /\ \E n \in ExitCodes :
          HostUpdate(h, [hosts[h] EXCEPT !.state = exited(@, n), !.channel = "None"])

\* _handle_running, reading the channel raises
HostStreamError(h) ==
    /\ Looping(h) /\ hosts[h].state.status = "Running"
    /\ HostUpdate(h, [hosts[h] EXCEPT
                          !.state = update_state(@, "Error", NoPid, "Socket exception"),
                          !.channel = "None"])

\* _handle_running, the session is gone
HostConnectionLost(h) ==
    /\ Looping(h) /\ hosts[h].state.status = "Running"
    /\ HostUpdate(h, [hosts[h] EXCEPT
                          !.state = update_state(@, "Disconnected", NoPid, "Connection lost"),
                          !.ssh = "None"])

\* _trigger_health_restart
HostHealthRestart(h) ==
    /\ Looping(h) /\ hosts[h].state.status = "Running"
    /\ HostUpdate(h, [hosts[h] EXCEPT
                          !.state = update_state(@, "Stopped", NoPid,
                                                 HealthError("CPU usage too low")),
                          !.channel = "None"])

\* an exception reaches the handler of _worker_loop
HostLoopException(h) ==
    /\ Looping(h)
    /\ \E err \in LoopErrors :
          HostUpdate(h, [hosts[h] EXCEPT !.state = update_state(@, "Error", NoPid, err)])

\* a step of the worker thread of h
HostWorker(h) ==
    \/ HostLoopExit(h) \/ HostConnectFail(h) \/ HostConnectOk(h)
    \/ HostStartProcess(h) \/ HostStartFailed(h) \/ HostReconnect(h)
    \/ HostProcessExit(h) \/ HostStreamError(h) \/ HostConnectionLost(h)
    \/ HostHealthRestart(h) \/ HostLoopException(h)

\* a control operation addressed to h
HostControl(h) == HostStart(h) \/ HostStop(h) \/ HostRestart(h) \/ HostForceRestart(h)

HostStep(h) == HostWorker(h) \/ HostControl(h)

InitHosts ==
    /\ WorkerCreated({ServerConfig(TRUE, FALSE, FALSE, FALSE)}, {"none"})
    /\ fleet = ServerManager(<<>>)
    /\ hosts = [h \in Names |-> Host]
    /\ store = MetricsStore(0)
    /\ conf = ConfigFile(FALSE, <<>>)
    /\ probe = Untested

NextHosts == (\E h \in Names : HostStep(h)) \/ UpdateUI

SpecHosts == InitHosts /\ [][NextHosts]_vars

(* ---- the metrics table between the workers that insert a sample a   ---- *)
(* ---- second and the metrics viewer that refreshes its chart          ---- *)
tvars == <<state, running, manual_stop_requested, thread_alive, ssh, channel,
           exit_status, pc, ret, delay_i, ctl, config, registered, proc,
           remote_pid, ui_queue, hvars, fleet, hosts, conf, probe>>

InitStore ==
    /\ WorkerCreated({ServerConfig(TRUE, FALSE, FALSE, FALSE)}, {"none"})
    /\ fleet = ServerManager(<<>>)
    /\ hosts = NoHosts
    /\ store \in {MetricsStore(off) : off \in UtcOffsets}
    /\ conf = ConfigFile(FALSE, <<>>)
    /\ probe = Untested

\* _maybe_sample_metrics of some worker persists its sample
StoreInsert ==
    /\ Len(store.rows) < MaxRows
    /\ \E server \in Names, cpu \in CpuSamples \cup {NoSample} :
          store' = [store EXCEPT
                       !.rows = insert_metric(@, server,
                                              time_time(store.now, store.utcoffset), cpu),
                       !.fresh = FALSE]
    /\ UNCHANGED tvars

\* a second passes
StoreTick ==
    /\ store.now < MaxClock
    /\ store' = [store EXCEPT !.now = @ + 1, !.fresh = FALSE]
    /\ UNCHANGED tvars

\* MetricsViewer._refresh_plot for a server and a window of seconds
RefreshPlot ==
    /\ \E server \in Names, seconds \in 0..MaxClock :
          store' = [store EXCEPT !.data = fetch_series(store, server, seconds),
                                 !.server = server, !.seconds = seconds, !.fresh = TRUE]
    /\ UNCHANGED tvars

NextStore == StoreInsert \/ StoreTick \/ RefreshPlot

SpecStore == InitStore /\ [][NextStore]_vars

(* ---- servers.json is loaded at startup, saved after every change of ---- *)
(* ---- the fleet and loaded again at the next startup                  ---- *)
cvars == <<state, running, manual_stop_requested, thread_alive, ssh, channel,
           exit_status, pc, ret, delay_i, ctl, config, registered, proc,
           remote_pid, ui_queue, hvars, fleet, hosts, store, probe>>

\* the values a key takes in a hand-written file
Written ==
    [name : {"h1"}, host : {"10.0.0.1"},
     auth : {[k \in {"type"} |-> "key"], [k \in {} |-> "key"]},
     command : {DefaultCommand, <<"w.py">>, <<>>},
     restart_delay_seconds : {5},
     process_match_regex : {None, "", "worker.*"},
     pre_command : {"source ~/.bashrc"},
     health_check_enabled : {TRUE},
     health_check_cpu_threshold : {80}]

\* an entry holds any of the keys
Entries == {[k \in D |-> w[k]] : D \in SUBSET Keys, w \in Written}

\* the entry that may follow the first one: complete, or without its host
Seconds ==
    {[name |-> "h2", host |-> "10.0.0.2", auth |-> [type |-> "key"]],
     [name |-> "h2", auth |-> [type |-> "key"]]}

ConfigFiles ==
    {ConfigFile(FALSE, <<>>), ConfigFile(TRUE, <<>>)}
    \cup {ConfigFile(TRUE, <<d>>) : d \in Entries}
    \cup {ConfigFile(TRUE, <<d, e>>) : d \in Entries, e \in Seconds}

InitConfig ==
    /\ WorkerCreated({ServerConfig(TRUE, FALSE, FALSE, FALSE)}, {"none"})
    /\ fleet = ServerManager(<<>>)
    /\ hosts = NoHosts
    /\ store = MetricsStore(0)
    /\ conf \in ConfigFiles
    /\ probe = Untested

\* load_servers(): the file exists afterwards
ConfigLoad ==
    /\ conf.phase \in {"new", "saved"}
    /\ LET servers == load_config(conf)
       IN  conf' = [conf EXCEPT !.exists = TRUE, !.entries = config_read(conf),
                                !.servers = servers,
                                !.first = IF conf.phase = "new" THEN servers ELSE @,
                                !.phase = IF conf.phase = "new" THEN "loaded"
                                          ELSE "reloaded"]
    /\ UNCHANGED cvars

\* save_servers(servers) of the loaded list
ConfigSave ==
    /\ conf.phase \in {"loaded", "reloaded"}
    /\ conf' = [conf EXCEPT !.entries = save_config(conf.servers), !.phase = "saved"]
    /\ UNCHANGED cvars

NextConfig == ConfigLoad \/ ConfigSave

SpecConfig == InitConfig /\ [][NextConfig]_vars

(* ---- _sample_cpu reads the first line of /proc/stat once a second and ---- *)
(* ---- computes the CPU usage from the counters of two readings        ---- *)
uvars == <<state, running, manual_stop_requested, thread_alive, ssh, channel,
           exit_status, pc, ret, delay_i, ctl, config, registered, proc,
           remote_pid, ui_queue, metrics_due, prev_cpu_set, cpu_below, gpu_below,
           failures, cpu_session, output, calls, mvars>>

\* the counters of a first line of /proc/stat: user nice system idle [iowait]
\* (system stays 0), and a line that is cut short
Lines ==
    {<<0, 0, 0>>}
        \cup {<<u, n, 0, i>> : u \in 0..MaxJiffies, n \in 0..MaxJiffies, i \in 0..MaxJiffies}
        \cup {<<u, n, 0, i, w>> : u \in 0..MaxJiffies, n \in 0..MaxJiffies,
                                  i \in 0..MaxJiffies, w \in 0..MaxJiffies}

\* what run_simple returns: a failure, another line, or a line of counters
Outputs ==
    {NoOutput, [ok |-> TRUE, head |-> "intr", nums |-> <<>>]}
        \cup {[ok |-> TRUE, head |-> "cpu", nums |-> l] : l \in Lines}

RECURSIVE Sum(_)
Sum(l) == IF l = <<>> THEN 0 ELSE l[1] + Sum(Tail(l))

\* total = sum(nums); idle = nums[3] + (nums[4] if len(nums) > 4 else 0)
parse_stat(nums) ==
    [total |-> Sum(nums),
     idle |-> nums[4] + (IF Len(nums) > 4 THEN nums[5] ELSE 0)]

\* the float n.0
Percent(n) == [num |-> n, den |-> 1]

\* min(a, b) and max(a, b) of two floats, as exact fractions
usage_min(a, b) == IF a.num * b.den <= b.num * a.den THEN a ELSE b
usage_max(a, b) == IF a.num * b.den >= b.num * a.den THEN a ELSE b

\* usage = 100.0 * (1.0 - (dt_idle / dt_total)); max(0.0, min(100.0, usage))
cpu_usage(dt_total, dt_idle) ==
    usage_max(Percent(0),
              usage_min(Percent(100), [num |-> 100 * (dt_total - dt_idle), den |-> dt_total]))

\* _sample_cpu, had it kept the old baseline for a reading it cannot use
sample_cpu_reading_keeping(prev, out) ==
    IF ~out.ok \/ out.head # "cpu" \/ Len(out.nums) < 4
    THEN [prev |-> prev, value |-> NoUsage]
    ELSE LET new == parse_stat(out.nums)
         IN  IF prev = NoBaseline THEN [prev |-> new, value |-> NoUsage]
             ELSE LET dt_total == new.total - prev.total
                      dt_idle == new.idle - prev.idle
                  IN  IF dt_total <= 0 THEN [prev |-> prev, value |-> NoUsage]
                      ELSE [prev |-> new, value |-> cpu_usage(dt_total, dt_idle)]

\* _sample_cpu: the baseline it leaves and the value it returns. A failed
\* command, a line that is not the cpu line and a line with fewer than four
\* counters (IndexError) return None before the baseline is touched
sample_cpu_reading(prev, out) ==
    IF ~out.ok \/ out.head # "cpu" \/ Len(out.nums) < 4
    THEN [prev |-> prev, value |-> NoUsage]
    ELSE LET new == parse_stat(out.nums)
         IN  IF prev = NoBaseline THEN [prev |-> new, value |-> NoUsage]
             ELSE LET dt_total == new.total - prev.total
                      dt_idle == new.idle - prev.idle
                  IN  [prev |-> new,
                       value |-> IF dt_total <= 0 THEN NoUsage
                                 ELSE cpu_usage(dt_total, dt_idle)]

InitCpu ==
    /\ WorkerCreated({ServerConfig(TRUE, FALSE, FALSE, FALSE)}, {"none"})
    /\ fleet = ServerManager(<<>>)
    /\ hosts = NoHosts
    /\ store = MetricsStore(0)
    /\ conf = ConfigFile(FALSE, <<>>)
    /\ probe = Untested

\* _maybe_sample_metrics calls _sample_cpu
SampleCpu ==
    /\ \E out \in Outputs :
          LET r == sample_cpu_reading(cpustat.prev, out)
          IN  cpustat' = [prev |-> r.prev, out |-> out, value |-> r.value]
    /\ UNCHANGED uvars

\* _start_process: self._prev_cpu_total = None; self._prev_cpu_idle = None
ClearBaseline ==
    /\ cpustat' = [cpustat EXCEPT !.prev = NoBaseline]
    /\ UNCHANGED uvars

NextCpu == SampleCpu \/ ClearBaseline

SpecCpu == InitCpu /\ [][NextCpu]_vars

(* ---- _handle_running polls the channel of the command: stdout, then ---- *)
(* ---- stderr, then the exit status, while the command goes on writing ---- *)
iovars == <<state, running, manual_stop_requested, thread_alive, ssh, channel,
           exit_status, pc, ret, delay_i, ctl, config, registered, proc,
           remote_pid, ui_queue, metrics_due, prev_cpu_set, cpu_below, gpu_below,
           failures, cpu_session, cpustat, calls, mvars>>

\* the lines one channel.recv(4096) / recv_stderr(4096) can hold
RecvLines == 2

\* the k-th line the command wrote, to stdout or stderr, blank or not
Line(k, stream, blank) == [n |-> k, stream |-> stream, blank |-> blank]

\* _push_log_line(line, stream)
LogLineEvent(l) == [type |-> "log_line", server |-> Name, line |-> l.n, stream |-> l.stream]

RECURSIVE push_log_lines(_, _)
\* for line in text.splitlines(): if line.strip(): self._push_log_line(line, stream)
push_log_lines(pushed, text) ==
    IF text = <<>> THEN pushed
    ELSE push_log_lines(IF text[1].blank THEN pushed ELSE Append(pushed, LogLineEvent(text[1])),
                        Tail(text))

\* the first k lines of the buffer of a stream, and the rest
Take(buf, k) == SubSeq(buf, 1, Min(k, Len(buf)))
Drop(buf, k) == SubSeq(buf, Min(k, Len(buf)) + 1, Len(buf))

InitOutput ==
    /\ WorkerCreated({ServerConfig(TRUE, FALSE, FALSE, FALSE)}, {"none"})
    /\ fleet = ServerManager(<<>>)
    /\ hosts = NoHosts
    /\ store = MetricsStore(0)
    /\ conf = ConfigFile(FALSE, <<>>)
    /\ probe = Untested

\* the command writes a line to stdout or to stderr
CommandWrites ==
    /\ ~output.exit_ready /\ Len(output.wrote) < MaxLines
    /\ \E stream \in {"stdout", "stderr"}, blank \in BOOLEAN :
          LET l == Line(Len(output.wrote) + 1, stream, blank)
          IN  output' = [output EXCEPT ![stream] = Append(@, l), !.wrote = Append(@, l)]
    /\ UNCHANGED iovars

\* the command ends: its exit status reaches the channel
CommandExits ==
    /\ ~output.exit_ready
    /\ output' = [output EXCEPT !.exit_ready = TRUE]
    /\ UNCHANGED iovars

\* if self.channel.recv_ready(): data = self.channel.recv(4096); push its lines
RecvStdout ==
    /\ output.at = "recv_ready"
    /\ output' = [output EXCEPT
                      !.pushed = push_log_lines(@, Take(output.stdout, RecvLines)),
                      !.stdout = Drop(@, RecvLines),
                      !.at = "recv_stderr_ready"]
    /\ UNCHANGED iovars

\* if self.channel.recv_stderr_ready(): data = self.channel.recv_stderr(4096); push its lines
RecvStderr ==
    /\ output.at = "recv_stderr_ready"
    /\ output' = [output EXCEPT
                      !.pushed = push_log_lines(@, Take(output.stderr, RecvLines)),
                      !.stderr = Drop(@, RecvLines),
                      !.at = "exit_status_ready"]
    /\ UNCHANGED iovars

\* if self.channel.exit_status_ready(): _update_state(STOPPED or ERROR), close
\* the channel and drop it; else time.sleep(0.1) and the next round of the loop
ExitStatusCheck ==
    /\ output.at = "exit_status_ready"
    /\ output' = IF output.exit_ready
                 THEN [output EXCEPT !.pushed = Append(@, StateEvent), !.closed = TRUE,
                                     !.at = "returned"]
                 ELSE [output EXCEPT !.at = "recv_ready"]
    /\ UNCHANGED iovars

NextOutput == CommandWrites \/ CommandExits \/ RecvStdout \/ RecvStderr \/ ExitStatusCheck

SpecOutput == InitOutput /\ [][NextOutput]_vars

(* ---- _update_state is called by the worker thread and, through stop, ---- *)
(* ---- restart and force_restart, by the UI thread, with no lock: the   ---- *)
(* ---- statements of two calls interleave on the one ServerState        ---- *)
rvars == <<running, manual_stop_requested, thread_alive, ssh, channel,
           exit_status, pc, ret, delay_i, ctl, config, registered, proc,
           remote_pid, ui_queue, metrics_due, prev_cpu_set, cpu_below, gpu_below,
           failures, cpu_session, cpustat, output, mvars>>

InitRace ==
    /\ WorkerCreated({ServerConfig(TRUE, FALSE, FALSE, FALSE)}, {"none"})
    /\ fleet = ServerManager(<<>>)
    /\ hosts = NoHosts
    /\ store = MetricsStore(0)
    /\ conf = ConfigFile(FALSE, <<>>)
    /\ probe = Untested

\* the calls of the UI thread: stop_worker, request_restart, force_restart
UiCalls ==
    {[at |-> "status", status |-> "Stopped", pid |-> NoPid, error |-> e] :
        e \in {"Manually stopped", "Restarting...", "Force restarting..."}}

\* the calls of the worker thread: _start_process and the pid refresh (Running),
\* the exit check of _handle_running (Stopped or Error)
WorkerCalls ==
    {[at |-> "status", status |-> "Running", pid |-> p, error |-> NoError] :
        p \in Pids \cup {NoPid}}
      \cup {[at |-> "status", status |-> "Error", pid |-> NoPid, error |-> ExitedWithCode(1)]}

\* a thread enters _update_state(status, pid, error)
CallUpdateState ==
    /\ \/ calls.ui = NoCall /\ \E c \in UiCalls : calls' = [calls EXCEPT !.ui = c]
       \/ calls.worker = NoCall /\ \E c \in WorkerCalls : calls' = [calls EXCEPT !.worker = c]
    /\ UNCHANGED <<state, rvars>>

\* self.state.status = status
SetStatus ==
    /\ \E t \in {"ui", "worker"} :
          /\ calls[t].at = "status"
          /\ state' = [state EXCEPT !.status = calls[t].status]
          /\ calls' = [calls EXCEPT ![t].at = "pid"]
    /\ UNCHANGED rvars

\* if pid is not None: self.state.pid = pid
SetPid ==
    /\ \E t \in {"ui", "worker"} :
          /\ calls[t].at = "pid"
          /\ state' = IF calls[t].pid # NoPid THEN [state EXCEPT !.pid = calls[t].pid]
                      ELSE state
          /\ calls' = [calls EXCEPT ![t].at = "error"]
    /\ UNCHANGED rvars

\* if error is not None: self.state.last_error = error
SetError ==
    /\ \E t \in {"ui", "worker"} :
          /\ calls[t].at = "error"
          /\ state' = IF calls[t].error # NoError
                      THEN [state EXCEPT !.last_error = calls[t].error]
                      ELSE state
          /\ calls' = [calls EXCEPT ![t].at = "clear"]
    /\ UNCHANGED rvars

\* if status == RUNNING: last_error = None; elif status in [STOPPED, ERROR]:
\* pid = None, uptime_seconds = 0; then _push_update() and return
ClearAndReturn ==
    /\ \E t \in {"ui", "worker"} :
          /\ calls[t].at = "clear"
          /\ state' = IF calls[t].status = "Running"
                      THEN [state EXCEPT !.last_error = NoError]
                      ELSE IF calls[t].status \in {"Stopped", "Error"}
                           THEN [state EXCEPT !.pid = NoPid, !.uptime_seconds = 0]
                           ELSE state
          /\ calls' = [calls EXCEPT ![t] = NoCall]
    /\ UNCHANGED rvars

NextRace == CallUpdateState \/ SetStatus \/ SetPid \/ SetError \/ ClearAndReturn

SpecRace == InitRace /\ [][NextRace]_vars

TypeOK ==
    /\ state.status \in Statuses
    /\ state.pid \in Pids \cup {NoPid}
    /\ state.uptime_seconds \in 0..MaxUptime
    /\ state.restarts_count \in 0..MaxRestarts
    /\ state.backoff_seconds \in {5, 10, 20, 40, 60}
    /\ ssh \in {"None", "Connected", "Inactive", "Closed"}
    /\ channel \in {"None", "Open", "Closed"}
    /\ pc \in {"none", "loop", "backoff", "connected", "start", "start_grace", "run_io",
               "metrics", "ext_metrics", "delay"}
    /\ Len(ui_queue) <= MaxQueue
    /\ failures \in 0..MaxFailures

(* ============================== claims ================================ *)

\* C1, as stated: in every reachable state, if status is not Running then pid is
\* none and uptime_seconds is 0.
C1_NotRunningNoPid ==
    state.status # "Running" => (state.pid = NoPid /\ state.uptime_seconds = 0)

\* the connection was lost while Running with a pid and an uptime: Disconnected
C1_LostWithPid ==
    /\ state.status = "Disconnected" /\ state.last_error = "Connection lost"
    /\ state.pid # NoPid /\ state.uptime_seconds > 0

\* C2, as stated: once stop() has been called and has returned, and until start(),
\* restart() or force_restart() is called (they clear manual_stop_requested),
\* the status is Stopped.
C2_StoppedStaysStopped ==
    (manual_stop_requested /\ ctl = "idle") => state.status = "Stopped"

\* a stopped supervisor whose worker went on to start the command
C2_RunningAfterStop ==
    manual_stop_requested /\ ctl = "idle" /\ state.status = "Running"

\* C3, as stated: once delete(name) has returned (the worker is no longer
\* registered), no step puts an event with that server name on the queue.
C3_NoEventAfterDelete ==
    [][~registered =>
         ~(/\ Len(ui_queue') > Len(ui_queue)
           /\ ui_queue'[Len(ui_queue')].server = Name)]_vars

C5_RestartsNeverDecrease ==
    [][state'.restarts_count >= state.restarts_count]_vars

\* a health restart happened after the command had been started twice
C5_HealthRestartAfterStarts ==
    /\ state.restarts_count = MaxRestarts
    /\ state.status = "Stopped"
    /\ state.last_error = "Health check: CPU usage too low"

\* backoff_seconds during the first attempts of a host that cannot be reached
BackoffSchedule == <<5, 10, 20, 40, 60, 60>>

\* C6: on a host where every connect attempt fails, the backoff used by the
\* attempt after n failures is the (n+1)-th of 5, 10, 20, 40, 60, 60 and 60 from
\* then on; after a failure last_error holds the connect error; the status is
\* only ever Disconnected or Connecting, so that no state update shows Running.
C6_BackoffSchedule ==
    /\ state.backoff_seconds
         = (IF failures < Len(BackoffSchedule) THEN BackoffSchedule[failures + 1] ELSE 60)
    /\ failures > 0 => state.last_error \in ConnectErrors
    /\ state.status \in {"Disconnected", "Connecting"}
    /\ \A i \in 1..Len(ui_queue) : ui_queue[i].type = "state_update"

\* the sixth attempt, sleeping 60 seconds after five failures
C6_SixthAttempt ==
    /\ failures = 5 /\ pc = "backoff" /\ state.backoff_seconds = 60
    /\ state.status = "Connecting" /\ state.last_error \in ConnectErrors

\* C7: crash recovery on a host that stays connected, without a manual stop: an
\* exit with code 9 seen while Running gives Error("Exited with code 9") and
\* leaves restarts_count alone; the restart delay is left only after all its
\* seconds; Error is left only for Running, with restarts_count one higher; and
\* Running is reached again.
C7_CrashRecovery ==
    /\ [][(RunExit /\ exit_status = 9) =>
            /\ state.status = "Running"
            /\ state'.status = "Error"
            /\ state'.last_error = "Exited with code 9"
            /\ state'.restarts_count = state.restarts_count]_vars
    /\ [][(state.status = "Error" /\ pc = "delay" /\ pc' # "delay") =>
            delay_i = RestartDelay]_vars
    /\ [][(state.status = "Error" /\ state'.status # "Error") =>
            /\ state'.status = "Running"
            /\ state'.restarts_count = state.restarts_count + 1]_vars
    /\ (/\ state.status = "Error" /\ state.last_error = "Exited with code 9"
        /\ state.restarts_count < MaxRestarts)
         ~> (state.status = "Running")

\* the first crash of a fresh supervisor has been seen (Error, restarts_count
\* still 1), the restart delay is over and the command has been started again
C7_RestartingAfterCrash ==
    /\ state.status = "Error" /\ state.last_error = "Exited with code 9"
    /\ state.restarts_count = 1 /\ pc = "start_grace" /\ channel = "Open"

\* C8: external takeover: when a matching process runs on the host right after
\* a successful connect, the status becomes External with its pid and the
\* command is not started (no channel, no start counted); when a later poll
\* finds no matching process, the status becomes Stopped("External process
\* ended"); External is left only that way; and from there the command is
\* started and Running is reached.
C8_ExternalTakeover ==
    /\ [][(AfterConnect /\ remote_pid # NoPid) =>
            /\ state'.status = "External" /\ state'.pid = remote_pid
            /\ pc' = "loop" /\ channel' = channel /\ proc' = proc
            /\ state'.restarts_count = state.restarts_count]_vars
    /\ [][(HandleExternal /\ remote_pid = NoPid) =>
            /\ state'.status = "Stopped"
            /\ state'.last_error = "External process ended"
            /\ pc' = "delay" /\ delay_i' = 0]_vars
    /\ [][(state.status = "External" /\ state'.status # "External") =>
            (state'.status = "Stopped" /\ state'.last_error = "External process ended")]_vars
    /\ (/\ state.status = "Stopped" /\ state.last_error = "External process ended"
        /\ state.restarts_count < MaxRestarts)
         ~> (state.status = "Running" /\ channel = "Open")

\* the external process has ended and the managed command has been started
C8_TakingOver ==
    /\ state.status = "Stopped" /\ state.last_error = "External process ended"
    /\ pc = "start_grace" /\ proc = "managed" /\ state.restarts_count = 0

\* a step of the sampler that reports a CPU reading below the threshold while
\* Running, with health checks and the CPU rule on
CpuLowSample ==
    /\ MetricsSample
    /\ config.health_check_enabled /\ config.health_check_cpu_enabled
    /\ state.status = "Running"
    /\ LET ev == ui_queue'[Len(ui_queue')]
       IN  ev.cpu # NoSample /\ ev.cpu < health_check_cpu_threshold

\* C9, as stated: with duration 3 and samples taken 1 s apart, the third
\* below-threshold sample (2 s after the first) triggers the restart.
C9_RestartAtThirdSample ==
    [][(CpuLowSample /\ cpu_below = 2) =>
         (state'.status = "Stopped"
          /\ state'.last_error = "Health check: CPU usage too low")]_vars

\* C9, amended: a below-threshold sample triggers the restart exactly when the
\* first one of the streak is CpuDuration seconds old or older (with samples 1 s
\* apart: the fourth, not the third); the status then leaves Running for
\* Stopped("Health check: CPU usage too low"), which is left only for Running,
\* with restarts_count one higher; and Running is reached again.
C9_RestartAfterDuration ==
    /\ [][CpuLowSample =>
            IF cpu_below # NoTimer /\ cpu_below >= CpuDuration
            THEN /\ state'.status = "Stopped"
                 /\ state'.last_error = "Health check: CPU usage too low"
                 /\ state'.restarts_count = state.restarts_count
                 /\ cpu_below' = NoTimer /\ channel' = "None"
            ELSE /\ state' = state
                 /\ cpu_below' = (IF cpu_below = NoTimer THEN 0 ELSE cpu_below)]_vars
    /\ [][(/\ state.status = "Stopped"
           /\ state.last_error = "Health check: CPU usage too low"
           /\ state'.status # "Stopped") =>
            /\ state'.status = "Running"
            /\ state'.restarts_count = state.restarts_count + 1]_vars
    /\ (/\ state.status = "Stopped"
        /\ state.last_error = "Health check: CPU usage too low"
        /\ state.restarts_count < MaxRestarts)
         ~> (state.status = "Running")

\* the restart has just been triggered by a sample of 20
C9_HealthRestart ==
    /\ state.status = "Stopped"
    /\ state.last_error = "Health check: CPU usage too low"
    /\ pc = "loop" /\ channel = "None" /\ cpu_below = NoTimer
    /\ Len(ui_queue) = 2 /\ ui_queue[1] = StateEvent /\ ui_queue[2] = MetricsEvent(20)

\* the supervisor as a completed stop() leaves it
StoppedByStop ==
    /\ ~running /\ manual_stop_requested
    /\ state.status = "Stopped" /\ state.last_error = "Manually stopped"
    /\ state.pid = NoPid /\ state.uptime_seconds = 0
    /\ ssh \in {"None", "Closed"} /\ channel \in {"None", "Closed"}

\* C10: stop() is idempotent: every completed stop() leaves the supervisor
\* as described above, and a stop() called on a supervisor in that state changes
\* none of status, pid, uptime_seconds, restarts_count, last_error,
\* backoff_seconds, running, manual_stop_requested, session and channel (it
\* does put one more state_update event, showing the same state, on the queue).
C10_StopIdempotent ==
    [][(StopServer /\ ctl' = "idle") =>
         /\ StoppedByStop'
         /\ StoppedByStop =>
              <<state, running, manual_stop_requested, ssh, channel>>'
                = <<state, running, manual_stop_requested, ssh, channel>>]_vars

\* stop() twice on a supervisor that was never started: both updates are pending
C10_StoppedTwice ==
    /\ StoppedByStop /\ ~thread_alive /\ state.restarts_count = 0 /\ failures = 0
    /\ ui_queue = <<StateEvent, StateEvent>>

\* the operation left the configuration list, servers.json, the name -> worker
\* mapping and every worker object as they are in the current state
SameFleet(m) ==
    /\ m.configs = fleet.configs
    /\ m.file = fleet.file
    /\ m.workers = fleet.workers
    /\ m.objs = fleet.objs

\* C11: for a configuration whose name no configuration of the fleet has, adding
\* it and then deleting its name gives back the configuration list, the
\* name -> worker mapping and the worker objects there were before: no worker is
\* registered under the name and the pair leaves no worker object or thread
C11_AddDeleteRoundTrip ==
    fleet.loaded =>
        \A cfg \in FleetConfigs :
            ~has_name(fleet.configs, cfg.name) =>
                LET m == delete_server(add_server(fleet, cfg), cfg.name)
                IN  /\ m.configs = fleet.configs
                    /\ m.workers = fleet.workers
                    /\ m.objs = fleet.objs
                    /\ cfg.name \notin DOMAIN m.workers
                    /\ m.raised = NoError

\* a fleet with one server whose worker thread runs, after a server was added
\* under the other name and deleted again
C11_AddedThenDeleted ==
    /\ fleet.loaded /\ Len(fleet.configs) = 1 /\ fleet.raised = NoError
    /\ fleet.file = save_servers(fleet.configs)
    /\ \E i \in DOMAIN fleet.objs : fleet.objs[i].thread_alive
    /\ \E cfg \in FleetConfigs :
          /\ ~has_name(fleet.configs, cfg.name)
          /\ add_server(fleet, cfg).workers # fleet.workers

\* C12: the configuration list never holds two configurations of one name
C12_UniqueNames ==
    \A i, j \in 1..Len(fleet.configs) :
        fleet.configs[i].name = fleet.configs[j].name => i = j

\* servers.json held two complete entries named h1 and was loaded
C12_TwoSpecsOneName ==
    /\ fleet.loaded /\ Len(fleet.configs) = 2
    /\ fleet.configs[1].name = "h1" /\ fleet.configs[2].name = "h1"

\* C13: add_server with a name the list has, edit_server renaming to a name the
\* list has, and edit_server of a name the list does not have each raise
\* ValueError and leave the configuration list, servers.json, the mapping and
\* every worker object (none stopped, none replaced) unchanged
C13_RejectedLeavesFleet ==
    fleet.loaded =>
        /\ \A cfg \in FleetConfigs :
              has_name(fleet.configs, cfg.name) =>
                  LET m == add_server(fleet, cfg)
                  IN  m.raised = AlreadyExists /\ SameFleet(m)
        /\ \A old_name \in Names, cfg \in FleetConfigs :
              /\ (/\ has_name(fleet.configs, old_name)
                  /\ cfg.name # old_name
                  /\ has_name(fleet.configs, cfg.name))
                 => LET m == edit_server(fleet, old_name, cfg)
                    IN  m.raised = AlreadyExists /\ SameFleet(m)
              /\ ~has_name(fleet.configs, old_name)
                 => LET m == edit_server(fleet, old_name, cfg)
                    IN  m.raised = NotFound /\ SameFleet(m)

\* an operation was rejected because of the name while the threads of both
\* servers run
C13_RejectedWhileRunning ==
    /\ fleet.raised = AlreadyExists
    /\ \A n \in Names :
          /\ n \in DOMAIN fleet.workers
          /\ fleet.objs[fleet.workers[n]].thread_alive
          /\ fleet.objs[fleet.workers[n]].running

\* the worker objects of a name whose thread is alive
LiveTasks(n) ==
    {i \in DOMAIN fleet.objs : fleet.objs[i].config.name = n /\ fleet.objs[i].thread_alive}

\* C14: at any time at most one worker thread is alive per server name
C14_OneTaskPerName == \A n \in Names : Cardinality(LiveTasks(n)) <= 1

\* the thread of a replaced worker and the thread of its successor are both alive
C14_TwoTasksOneName ==
    \E n \in Names :
        /\ n \in DOMAIN fleet.workers
        /\ fleet.objs[fleet.workers[n]].thread_alive
        /\ \E i \in LiveTasks(n) : i # fleet.workers[n]

\* the step puts a state_update event on the queue
StatePut == \E i \in (Len(ui_queue) + 1)..Len(ui_queue') : ui_queue'[i] = StateEvent

\* the state with its backoff left out
NoBackoff(s) == [s EXCEPT !.backoff_seconds = 0]

C16_ProductionOrder ==
    [][\/ ui_queue' = <<>>
       \/ /\ Len(ui_queue') >= Len(ui_queue)
          /\ SubSeq(ui_queue', 1, Len(ui_queue)) = ui_queue]_vars

\* a log line put by the worker thread is pending with the state_update put
\* after it by stop_worker on the UI thread
C16_WorkerThenControl ==
    /\ ui_queue = <<LogEvent, StateEvent>>
    /\ StoppedByStop /\ ctl = "idle" /\ thread_alive

\* C17: when start_server returns, manual_stop_requested is False, a worker
\* thread is alive and its loop flag is set
C17_StartLeavesWorkerRunning ==
    [][StartServer => (~manual_stop_requested' /\ thread_alive' /\ running')]_vars

\* start_server was called after stop_server while the stopped thread was still
\* alive: the flag of the loop stays False
C17_StartedWhileStopping ==
    /\ ctl = "idle" /\ ~manual_stop_requested /\ thread_alive /\ ~running
    /\ state.status = "Stopped" /\ state.last_error = "Manually stopped"

\* request_restart has returned and nothing has changed the state since
Restarting ==
    /\ ctl = "idle" /\ ~manual_stop_requested
    /\ state.status = "Stopped" /\ state.last_error = "Restarting..."

\* C18: after restart_server the worker thread, the only caller of
\* _start_process, is alive to start the process again
C18_RestartHasWorker == Restarting => thread_alive

\* restart_server on a server stopped by stop_server whose thread has ended
C18_RestartOfStopped ==
    /\ Restarting /\ ~thread_alive /\ ~running
    /\ ssh = "Closed" /\ state.restarts_count > 0

\* _start_process found the script missing and nothing has changed the state since
ScriptMissing == state.status = "Error" /\ state.last_error = "Script not found"

\* C19 (as stated): while the state shows the missing script and nobody calls
\* start, restart or force restart, _start_process is not entered again
C19_NotRetried == [][~(ScriptMissing /\ pc # "start" /\ pc' = "start")]_vars

\* C19 (amended): a missing script sets Error with the message and leaves
\* backoff_seconds as it is; the worker loop then enters _start_process again
\* after the restart delay, with no call by the user
C19_ScriptMissingRetried ==
    /\ [][(StartFailed /\ state'.last_error = "Script not found")
            => (state'.status = "Error"
                /\ state'.backoff_seconds = state.backoff_seconds)]_vars
    /\ (ScriptMissing /\ pc = "loop") ~> (ScriptMissing /\ pc = "start")

\* _start_process is entered again after the script was found missing
C19_RetryAfterMissingScript ==
    /\ ScriptMissing /\ pc = "start" /\ state.restarts_count = 0 /\ delay_i = 0

\* C20: a step of the worker thread of a server (failed connect, stream error,
\* exit of the process, health restart, exception in the loop and the others)
\* and a control operation addressed to it leave the state, the session, the
\* channel and the flags of the worker of every other server unchanged
C20_OtherHostsUntouched ==
    [][\A h \in Names :
          HostStep(h) => \A g \in Names \ {h} : hosts'[g] = hosts[g]]_vars

\* h1 has started its command and hit a stream error
\* while h2 runs its first start undisturbed
C20_ErrorsNextToRunning ==
    /\ hosts["h1"].state.status = "Error"
    /\ hosts["h1"].state.last_error = "Socket exception"
    /\ hosts["h1"].state.restarts_count = 1
    /\ hosts["h2"].state = started(ServerState, 4711)
    /\ hosts["h2"].channel = "Open" /\ Looping("h2")

\* C21: a sampling tick in which every metric is none leaves the state as it is
\* and puts exactly its metrics event, whether the insert succeeds or fails; and
\* for any sample a failed insert gives the state and the events of the same
\* tick with a successful insert, the metrics event last
C21_MetricsFailuresLeaveState ==
    /\ \A inserted \in BOOLEAN :
          LET r == maybe_sample_metrics(config, state, NoSample, NoSample,
                                        cpu_below, gpu_below, inserted)
          IN  r.state = state /\ r.events = <<MetricsEvent(NoSample)>>
    /\ \A cpu \in CpuSamples \cup {NoSample}, gpu \in GpuSamples \cup {NoSample} :
          LET ok == maybe_sample_metrics(config, state, cpu, gpu, cpu_below, gpu_below, TRUE)
              failed == maybe_sample_metrics(config, state, cpu, gpu, cpu_below, gpu_below, FALSE)
          IN  /\ failed.state = ok.state /\ failed.events = ok.events
              /\ failed.events[Len(failed.events)] = MetricsEvent(cpu)
              /\ ~failed.restart => failed.state = state

\* a tick without any reading has put its metrics event while the command runs
\* and the CPU timer has reached the duration
C21_EmptySampleWhileLow ==
    /\ state.status = "Running" /\ pc = "loop"
    /\ config.health_check_cpu_enabled /\ cpu_below = CpuDuration
    /\ ui_queue # <<>> /\ ui_queue[Len(ui_queue)] = MetricsEvent(NoSample)

\* the rows of the chart's server that have a cpu value and are no older than
\* the chart's window
Recent ==
    {i \in 1..Len(store.rows) :
        /\ store.rows[i].server = store.server
        /\ store.rows[i].cpu # NoSample
        /\ store.seconds >= store.now - store.rows[i].ts}

\* C22: right after a fetch, every inserted sample of the server whose age is at
\* most the window is among the returned rows, and the returned rows are in
\* ascending order of their timestamps
C22_FetchReturnsRecent ==
    store.fresh =>
        /\ \A i \in Recent :
              \E k \in 1..Len(store.data) :
                  store.data[k] = <<store.rows[i].ts, store.rows[i].cpu>>
        /\ \A k \in 1..(Len(store.data) - 1) : store.data[k][1] <= store.data[k + 1][1]

\* west of UTC a sample inserted this second is missing from a fetch whose
\* window covers it
C22_RecentSampleMissing ==
    /\ store.fresh /\ store.utcoffset < 0 /\ store.data = <<>>
    /\ \E i \in Recent : store.rows[i].ts = store.now

\* C23: loading fills every defaulted key an entry omits with its default,
\* saving writes every field of every loaded configuration, and loading the
\* saved file returns the list the first load returned, field by field:
\* load(save(load(f))) = load(f)
C23_RoundTrip ==
    LET loaded == load_config(conf)
        saved == [conf EXCEPT !.exists = TRUE, !.entries = save_config(loaded)]
        kept == SelectSeq(conf.orig, LAMBDA d : Required \subseteq DOMAIN d
                                                /\ "type" \in DOMAIN d["auth"])
    IN  /\ load_config(saved) = loaded
        /\ \A i \in 1..Len(loaded) : DOMAIN saved.entries[i] = Keys
        /\ \A i \in 1..Len(loaded) : \A k \in Keys : saved.entries[i][k] = loaded[i][k]
        /\ conf.phase = "reloaded" => conf.servers = conf.first
        /\ conf.phase = "loaded" /\ conf.orig # <<>> =>
              /\ Len(conf.servers) = Len(kept)
              /\ \A i \in 1..Len(kept) :
                    \A k \in Defaulted \ (DOMAIN kept[i] \cup {"process_match_regex"}) :
                        conf.servers[i][k] = Defaults[k]

\* a file whose entry has only the required keys has been loaded, saved and
\* loaded again, next to an entry that was skipped
C23_ReloadedDefaults ==
    /\ conf.phase = "reloaded"
    /\ Len(conf.orig) = 2 /\ Len(conf.servers) = 1
    /\ DOMAIN conf.orig[1] = Required
    /\ DOMAIN conf.entries[1] = Keys
    /\ conf.servers[1]["restart_delay_seconds"] = 12
    /\ conf.servers[1]["process_match_regex"] = "/home/v13/ultra_aggressive_worker\\.py"

\* the managers start_all is called on: servers.json loaded, then a server
\* started, or started and stopped again
Loaded == {load_configs(ServerManager(file)) : file \in Files}

Fleets ==
    Loaded
    \cup {start_server(m, n) : m \in Loaded, n \in Names}
    \cup {stop_server(start_server(m, n), n) : m \in Loaded, n \in Names}

\* start_all leaves a live thread for every worker whose configuration is
\* enabled and leaves every other worker as it was
StartAllStartsEnabled ==
    \A m \in Fleets :
        LET after == start_all(m)
        IN  /\ after.workers = m.workers /\ after.configs = m.configs
            /\ \A n \in DOMAIN m.workers :
                  LET i == m.workers[n]
                  IN  IF m.objs[i].config.enabled
                      THEN after.objs[i].thread_alive
                      ELSE after.objs[i] = m.objs[i]

\* C24: start_all starts a thread for every worker whose configuration is
\* enabled and for no worker whose configuration is disabled; a worker whose
\* configuration is disabled never opens an SSH session and never starts the
\* command, also when it is started on its own
C24_DisabledNeverStarted ==
    /\ StartAllStartsEnabled
    /\ ~config.enabled =>
          /\ ssh = "None" /\ channel = "None" /\ proc # "managed"
          /\ pc \in {"none", "loop"}
          /\ state.status \in {"Disconnected", "Stopped"}

\* a disabled worker started on its own reports Disabled, and some fleet
\* holds a disabled worker next to an enabled one that start_all starts
C24_DisabledStartedAlone ==
    /\ ~config.enabled /\ thread_alive /\ running
    /\ state.status = "Stopped" /\ state.last_error = "Disabled"
    /\ \E m \in Loaded :
          /\ \E n \in DOMAIN m.workers : ~m.objs[m.workers[n]].config.enabled
          /\ \E n \in DOMAIN m.workers :
                /\ m.objs[m.workers[n]].config.enabled
                /\ ~m.objs[m.workers[n]].thread_alive
                /\ start_all(m).objs[m.workers[n]].thread_alive

\* C25: test_connection leaves the configurations, the workers dict, every
\* worker and servers.json as they were and puts nothing on the ui_queue,
\* whether the connection succeeds or fails
C25_TestConnectionPure ==
    [][FleetTestConnection =>
          /\ fleet' = fleet
          /\ ui_queue' = ui_queue /\ state' = state]_vars

\* a connection was tested and failed next to a worker that is running
C25_TestedNextToRunning ==
    /\ ~probe.success /\ probe.info = "error"
    /\ \E n \in DOMAIN fleet.workers : fleet.objs[fleet.workers[n]].running

\* C26: whenever the worker enters Running, both health timers are None: a
\* period below the threshold that began in an earlier Running period does
\* not count toward this one
C26_TimersClearedOnLeave ==
    [][state.status # "Running" /\ state'.status = "Running" =>
          cpu_below' = NoTimer /\ gpu_below' = NoTimer]_vars

\* the command is started again while the CPU timer set in the run that
\* ended is still set
C26_TimerSurvivesExit ==
    /\ pc = "start_grace" /\ state.status \in {"Stopped", "Error"}
    /\ state.restarts_count >= 1
    /\ cpu_below # NoTimer

\* the values a health timer takes
Timers(duration) == {NoTimer} \cup 0..duration

\* _evaluate_health_checks on every input: a rule fires only with health checks
\* and the rule on, in Running, on a sample below the threshold whose timer
\* is at least duration seconds old; a sample at or above the threshold clears
\* the timer of its rule; a restart clears both timers
HealthRulesSound ==
    \A cfg \in Configs, st \in Statuses,
       cpu \in CpuSamples \cup {NoSample}, gpu \in GpuSamples \cup {NoSample},
       ct \in Timers(CpuDuration), gt \in Timers(GpuDuration) :
        LET h == evaluate_health_checks(cfg, st, cpu, gpu, ct, gt)
            on == cfg.health_check_enabled /\ st = "Running"
        IN  /\ h.reason \in {"", "CPU usage too low", "GPU usage too low"}
            /\ h.reason = "CPU usage too low" =>
                  /\ on /\ cfg.health_check_cpu_enabled
                  /\ cpu # NoSample /\ cpu < health_check_cpu_threshold
                  /\ ct # NoTimer /\ ct >= CpuDuration
            /\ h.reason = "GPU usage too low" =>
                  /\ on /\ cfg.health_check_gpu_enabled
                  /\ gpu # NoSample /\ gpu < health_check_gpu_threshold
                  /\ gt # NoTimer /\ gt >= GpuDuration
            /\ on /\ cfg.health_check_cpu_enabled
                  /\ cpu # NoSample /\ cpu >= health_check_cpu_threshold => h.cpu_t = NoTimer
            /\ on /\ cfg.health_check_gpu_enabled
                  /\ gpu # NoSample /\ gpu >= health_check_gpu_threshold => h.gpu_t = NoTimer
            /\ h.reason # "" => h.cpu_t = NoTimer /\ h.gpu_t = NoTimer

\* C27: a health restart happens only with health checks and the rule enabled,
\* in Running, on a sample below the threshold taken when the timer of the
\* rule is at least its duration old, and it clears both timers; while the
\* timer of a rule stays set every sample that is available is below the
\* threshold, since a sample at or above it clears the timer
C27_HealthRestartOnlyAfterLowStreak ==
    /\ [][HealthRulesSound]_vars
    /\ [][(/\ state'.last_error = HealthError("CPU usage too low")
           /\ state.last_error # state'.last_error) =>
              /\ MetricsSample
              /\ config.health_check_enabled /\ config.health_check_cpu_enabled
              /\ state.status = "Running" /\ state'.status = "Stopped"
              /\ cpu_below # NoTimer /\ cpu_below >= CpuDuration
              /\ LET ev == ui_queue'[Len(ui_queue')]
                 IN  ev.cpu # NoSample /\ ev.cpu < health_check_cpu_threshold
              /\ cpu_below' = NoTimer /\ gpu_below' = NoTimer]_vars
    /\ [][(MetricsSample /\ cpu_below' # NoTimer) =>
              LET ev == ui_queue'[Len(ui_queue')]
              IN  /\ state.status = "Running" /\ state'.status = "Running"
                  /\ ev.cpu = NoSample \/ ev.cpu < health_check_cpu_threshold]_vars
    /\ [][~config.health_check_gpu_enabled =>
              state'.last_error # HealthError("GPU usage too low")]_vars

\* the CPU rule has fired on a low sample: both timers are cleared and the
\* worker is Stopped before its first restart delay
C27_RestartedAfterLowStreak ==
    /\ config.health_check_enabled /\ config.health_check_cpu_enabled
    /\ state.status = "Stopped" /\ state.last_error = HealthError("CPU usage too low")
    /\ state.restarts_count = 1 /\ pc = "loop"
    /\ cpu_below = NoTimer /\ gpu_below = NoTimer
    /\ ui_queue # <<>> /\ ui_queue[Len(ui_queue)] = MetricsEvent(20)

\* the state a stream error leaves
StreamFailed ==
    state.status = "Error" /\ state.last_error = "Socket exception" /\ state.pid = NoPid

\* C28, as stated: a stream error in Running sets Error and tears the SSH
\* session down, and the command is not started again from that state: the
\* worker reconnects first
C28_ReconnectsAfterStreamError ==
    /\ [][RunStreamError => state'.status = "Error" /\ ~is_connected(ssh')]_vars
    /\ [][StartExec => ~StreamFailed]_vars

\* C28, amended: a stream error in Running sets Error with no pid and closes
\* and releases the channel; the SSH session is left as it is. The Error state
\* is left for Running when the command is started again over that session
\* after the restart delay, for the Error of a start that failed, for
\* Disconnected when the session is found lost, or for Stopped by a stop or
\* a restart request; it is never left for Connecting
C28_RestartOverSameSession ==
    /\ [][RunStreamError =>
              /\ state' = update_state(state, "Error", NoPid, "Socket exception")
              /\ channel' = "None" /\ ssh' = ssh]_vars
    /\ [][StartExec /\ StreamFailed => is_connected(ssh) /\ ssh' = ssh]_vars
    /\ [][StreamFailed /\ ~StreamFailed' =>
              state'.status \in {"Running", "Error", "Disconnected", "Stopped"}]_vars

\* the command has been started again in the Error state of a stream error,
\* over the session that was open when the error was raised
C28_StartedWithoutReconnect ==
    /\ StreamFailed /\ pc = "start_grace"
    /\ is_connected(ssh) /\ channel = "Open"

\* C29: a restart delay in progress is abandoned when stop() or restart() is
\* requested: once a stop is requested the countdown does not go on to
\* _start_process, and a restart request makes the delay begin anew
C29_CountdownAbandoned ==
    /\ [][pc = "delay" /\ manual_stop_requested /\ ~running => pc' # "start"]_vars
    /\ [][RestartBegin("restart") /\ pc = "delay" => delay_i' = 0]_vars

\* the command is being started by the countdown of a restart delay while the
\* stop() that was requested during its last second is still in progress
C29_StartedDuringStop ==
    /\ pc = "start_grace" /\ state.status \in {"Stopped", "Error"}
    /\ manual_stop_requested /\ ~running /\ ctl = "stop"
    /\ channel = "Open"

\* C30: when _handle_running finds that the command has exited with code n,
\* the status becomes Stopped if n is 0 and Error otherwise, with no pid,
\* uptime 0 and last_error "Exited with code n"; restarts_count and the
\* backoff are left alone; the channel is closed and released
C30_ExitRecorded ==
    [][RunExit =>
          /\ state'.status = (IF exit_status = 0 THEN "Stopped" ELSE "Error")
          /\ state'.pid = NoPid /\ state'.uptime_seconds = 0
          /\ state'.last_error = ExitedWithCode(exit_status)
          /\ state'.restarts_count = state.restarts_count
          /\ state'.backoff_seconds = state.backoff_seconds
          /\ channel' = "None" /\ exit_status' = NoExit]_vars

\* the command has exited with code 0 and the worker has not moved on yet
C30_ExitedCleanly ==
    /\ state.status = "Stopped" /\ state.last_error = "Exited with code 0"
    /\ state.pid = NoPid /\ state.uptime_seconds = 0
    /\ pc = "loop" /\ channel = "None" /\ is_connected(ssh)
    /\ ui_queue # <<>> /\ ui_queue[Len(ui_queue)] = StateEvent

\* C31: when _handle_running finds the SSH transport inactive, the status
\* becomes Disconnected with last_error "Connection lost" (the pid shown is
\* kept) and the session is released; with no manual stop, a worker that is Running on an
\* inactive transport eventually attempts to reconnect (Connecting), and
\* Connecting is entered only from Disconnected
C31_LostThenReconnect ==
    /\ [][RunLost =>
              /\ state' = update_state(state, "Disconnected", NoPid, "Connection lost")
              /\ state'.status = "Disconnected" /\ state'.last_error = "Connection lost"
              /\ ssh' = "None"]_vars
    /\ [][state.status # "Connecting" /\ state'.status = "Connecting" =>
              state.status = "Disconnected"]_vars
    /\ (state.status = "Running" /\ ssh = "Inactive") ~> (state.status = "Connecting")

\* the loss of a session that carried a running command has just been seen
C31_ConnectionLostSeen ==
    /\ state.status = "Disconnected" /\ state.last_error = "Connection lost"
    /\ ssh = "None" /\ channel = "Open"
    /\ state.restarts_count = 1 /\ pc = "loop" /\ ~manual_stop_requested

\* C32: the status External is only shown for a process that this worker
\* did not launch: while the matching process on the host is the command the
\* worker started itself, the status is never External
C32_ExternalNotOurs == state.status = "External" => proc # "managed"

\* the command the worker started is still running after the session was
\* lost and opened again, and is shown as External with its pid
C32_OwnProcessExternal ==
    /\ state.status = "External" /\ proc = "managed"
    /\ state.pid = remote_pid /\ state.restarts_count = 1
    /\ state.last_error = "Process already running (not started by us)"
    /\ is_connected(ssh)

C34_UsageFromDeltas ==
    [][SampleCpu /\ cpustat.prev # NoBaseline
           /\ cpustat'.out.ok /\ cpustat'.out.head = "cpu" /\ Len(cpustat'.out.nums) >= 4 =>
          LET nums == cpustat'.out.nums
              total == Sum(nums)
              idle == nums[4] + (IF Len(nums) >= 5 THEN nums[5] ELSE 0)
              dt == total - cpustat.prev.total
              di == idle - cpustat.prev.idle
              v == cpustat'.value
          IN  /\ cpustat'.prev = [total |-> total, idle |-> idle]
              /\ dt <= 0 => v = NoUsage
              /\ dt > 0 =>
                    /\ v.den > 0
                    /\ IF di > dt THEN v.num = 0
                       ELSE IF di < 0 THEN v.num = 100 * v.den
                       ELSE v.num * dt = 100 * (dt - di) * v.den]_vars

\* a second reading gave a usage strictly between 0 and 100, and is the baseline
C34_HalfBusy ==
    /\ cpustat.out.ok /\ cpustat.out.head = "cpu" /\ Len(cpustat.out.nums) = 5
    /\ cpustat.prev = parse_stat(cpustat.out.nums)
    /\ cpustat.value.den > 0
    /\ cpustat.value.num * 2 = 100 * cpustat.value.den

\* C35: when the exit of the command has been recorded, every non-blank line
\* it wrote has been pushed as a log line before the state update, the lines of
\* each stream in the order written, and no output is left in the channel
C35_OutputBeforeExit ==
    output.closed =>
        /\ output.stdout = <<>> /\ output.stderr = <<>>
        /\ \A stream \in {"stdout", "stderr"} :
              SelectSeq(output.pushed, LAMBDA ev : ev.type = "log_line" /\ ev.stream = stream)
                  = push_log_lines(<<>>, SelectSeq(output.wrote, LAMBDA l : l.stream = stream))
        /\ output.pushed[Len(output.pushed)] = StateEvent

\* the exit was recorded and the channel closed while a line that the command
\* wrote before it ended was still in the channel, and was never pushed
C35_LineLostAtExit ==
    /\ output.closed /\ output.at = "returned"
    /\ Len(output.wrote) = 1 /\ ~output.wrote[1].blank /\ output.wrote[1].stream = "stdout"
    /\ output.stdout = output.wrote
    /\ output.pushed = <<StateEvent>>

\* C36: restarts_count goes up by exactly one in the step of start_process
\* that follows the opening of the channel and sets Running, and no other step
\* changes it: not a failed start, the pid refresh, a stop, a restart or a
\* forced restart
C36_CountedOncePerStart ==
    [][/\ StartProcessDone =>
              /\ state'.restarts_count = state.restarts_count + 1
              /\ state'.status = "Running"
       /\ state'.restarts_count # state.restarts_count => StartProcessDone]_vars

\* the command runs after its second counted start
C36_SecondStartCounted ==
    /\ state.status = "Running" /\ state.restarts_count = 2
    /\ state.pid # NoPid /\ channel = "Open" /\ pc = "loop"

\* C37: while manual_stop_requested is set the worker opens no SSH session
\* and does not enter start_process, wherever its loop was when the stop came;
\* and once the worker thread has ended, no session and no channel is open
C37_QuietWhileStopRequested ==
    /\ [][manual_stop_requested =>
              /\ ~(is_connected(ssh') /\ ~is_connected(ssh))
              /\ ~(pc' = "start" /\ pc # "start")]_vars
    /\ [](~thread_alive => ~is_connected(ssh) /\ channel # "Open")

\* stop() came while the worker slept before a connect: it has returned, the
\* worker has connected and started the command after it, and its thread has
\* ended with the session and the channel open
C37_SessionLeftOpen ==
    /\ ~thread_alive /\ pc = "none" /\ ctl = "idle"
    /\ manual_stop_requested /\ ~running
    /\ is_connected(ssh) /\ channel = "Open" /\ state.status = "Running"

\* C38: there is at most one open channel of the command: start_process does
\* not open a channel while the channel of an earlier start is still open and
\* held by the worker, because a restart, a forced restart and a health
\* restart each close and drop the old channel first
C38_OneChannel ==
    [][StartExec => channel # "Open"]_vars

\* start_process has been entered after a forced restart, over the live
\* session, while the channel of the start before it is open and still held
C38_StartOverOpenChannel ==
    /\ pc = "start" /\ is_connected(ssh) /\ channel = "Open"
    /\ state.status = "Stopped" /\ state.last_error = "Force restarting..."
    /\ state.restarts_count = 1 /\ ctl = "idle"

\* C39: whenever the status is Running, last_error is none, however the state
\* updates of the worker thread interleave with those of stop, restart and
\* force_restart in the UI thread (looked at when no update is in progress)
C39_RunningWithoutError ==
    calls = NoCalls /\ state.status = "Running" => state.last_error = NoError

\* both threads have returned from _update_state: the worker's Running came
\* between the status and the error that request_restart wrote
C39_RunningWithRestartError ==
    /\ calls = NoCalls
    /\ state.status = "Running" /\ state.last_error = "Restarting..."
    /\ state.pid = NoPid

\* C40: after any sequence of load, add, edit and delete, accepted or
\* rejected, the names that have a worker are the names of the configuration
\* list, and the worker of each entry of the list holds that entry
C40_WorkersMatchConfigs ==
    /\ DOMAIN fleet.workers = {fleet.configs[i].name : i \in 1..Len(fleet.configs)}
    /\ \A i \in 1..Len(fleet.configs) :
          /\ fleet.configs[i].name \in DOMAIN fleet.workers
          /\ fleet.objs[fleet.workers[fleet.configs[i].name]].config = fleet.configs[i]

\* servers.json held two entries named h1; the first has been renamed to h2 by
\* an accepted edit, and the entry h1 that is left in the list has no worker
C40_EntryWithoutWorker ==
    /\ fleet.loaded /\ fleet.raised = NoError
    /\ Len(fleet.configs) = 2
    /\ fleet.configs[1].name = "h2" /\ fleet.configs[2].name = "h1"
    /\ DOMAIN fleet.workers = {"h2"}

====
